---- MODULE Spec2Model ----
(***************************************************************************)
(* A model of the document bot: the record store (src/database.py), the   *)
(* reminder job (src/jobs.py), and the upload conversation with the       *)
(* handler registration order of src/bot.py.                              *)
(*                                                                         *)
(* Dates are day numbers (date + timedelta(days=n) is day + n); an        *)
(* optional value is None (<<>>) or Some(v) (<<v>>).                      *)
(***************************************************************************)
EXTENDS Integers, Sequences, FiniteSets, TLC

\* ------------------------------------------------------------------ bounds
\* The last day the model's calendar reaches (days are 0..MaxDay).
MaxDay == 1
\* How many times the process may be restarted.
MaxRestarts == 1
\* The documents the store holds when the reminder job is studied.
NumDocs == 2
\* The latest expiry day of those documents.
MaxEnd == 2
\* How many store or delivery failures may happen in one behaviour.
MaxFaults == 1
\* The users who talk to the bot when the update handlers are studied.
NumUsers == 1

\* ------------------------------------------------------------ optional values
None == <<>>
Some(v) == <<v>>
Val(o) == o[1]

\* ------------------------------------------------------------ configuration
\* config.REMINDER_DAYS_BEFORE: the ordered day-thresholds of the reminder job.
REMINDER_DAYS_BEFORE == <<0, 1, 3, 7, 30>>

Thresholds == {REMINDER_DAYS_BEFORE[n] : n \in 1..Len(REMINDER_DAYS_BEFORE)}

\* The two jobs setup_jobs registers.
Jobs == {"daily_reminders", "initial_reminders"}

VARIABLES
    today,          \* date.today(), a day number
    users,          \* table users: the telegram ids registered
    documents,      \* table documents: a set of rows
    reminders_sent, \* table reminders_sent: a set of <<document_id, days_before>>
    job,            \* per job: the position of its send_reminders coroutine
    initial_pending,\* run_once(send_reminders, when=10) has not fired yet
    daily_fired,    \* run_daily(send_reminders, 09:00) has fired today
    restarts,       \* process restarts so far
    deliveries,     \* history: per (document, threshold), messages delivered
    failed_pairs,   \* history: pairs whose last delivery attempt failed
    faults,         \* history: store and delivery failures so far
    last_clean_day, \* history: the day of the last run that completed with no failure
    templates,      \* table templates: a set of rows
    next_doc_id,    \* documents.id AUTOINCREMENT
    next_tmpl_id,   \* templates.id AUTOINCREMENT
    conv,           \* ConversationHandler: per user, the upload conversation's state
    user_data,      \* context.user_data: per user, the draft and the template flag
    offered,        \* the quick-date buttons pressed in this behaviour
    event,          \* history: the last update handled, and how
    pager,          \* history: the last list paginated, and its page count
    txn             \* history: the store after each statement of the last delete_document

schedVars == <<today, users, documents, reminders_sent, job, initial_pending,
               daily_fired, restarts, deliveries, failed_pairs, faults, last_clean_day>>

convVars == <<templates, next_doc_id, next_tmpl_id, conv, user_data, offered, event, pager,
              txn>>

vars == <<schedVars, convVars>>

\* ------------------------------------------------------------------ calendar
\* Day 0 of the model is 2024-01-15; a date is its distance in days from it.
IsLeap(y) == (y % 4 = 0 /\ y % 100 # 0) \/ y % 400 = 0

DaysInMonth(y, m) ==
    IF m = 2 THEN (IF IsLeap(y) THEN 29 ELSE 28)
    ELSE IF m \in {4, 6, 9, 11} THEN 30 ELSE 31

RECURSIVE DaysBeforeMonth(_, _)
DaysBeforeMonth(y, m) ==
    IF m <= 1 THEN 0 ELSE DaysBeforeMonth(y, m - 1) + DaysInMonth(y, m - 1)

\* date(y, m, d).toordinal()
Ordinal(y, m, d) ==
    LET p == y - 1
    IN  p * 365 + (p \div 4) - (p \div 100) + (p \div 400) + DaysBeforeMonth(y, m) + d

EpochOrdinal == Ordinal(2024, 1, 15)

\* The day number of a calendar date.
DayOf(y, m, d) == Ordinal(y, m, d) - EpochOrdinal

\* The calendar date <<y, m, d>> of a day number.
CivilOf(day) ==
    LET n == day + EpochOrdinal
        y == CHOOSE c \in ((n \div 366) + 1)..((n \div 365) + 1) :
                 Ordinal(c, 1, 1) <= n /\ n < Ordinal(c + 1, 1, 1)
        m == CHOOSE c \in 1..12 :
                 Ordinal(y, c, 1) <= n /\ n < Ordinal(y, c, 1) + DaysInMonth(y, c)
    IN  <<y, m, n - Ordinal(y, m, 1) + 1>>

\* ---------------------------------------------------------------------- text
\* A text is a sequence of one-character strings.
Digits == {"0", "1", "2", "3", "4", "5", "6", "7", "8", "9"}

DigitVal(c) ==
    CASE c = "0" -> 0 [] c = "1" -> 1 [] c = "2" -> 2 [] c = "3" -> 3 [] c = "4" -> 4
      [] c = "5" -> 5 [] c = "6" -> 6 [] c = "7" -> 7 [] c = "8" -> 8 [] c = "9" -> 9

AllDigits(f) == \A n \in 1..Len(f) : f[n] \in Digits

RECURSIVE NumVal(_)
NumVal(f) ==
    IF f = <<>> THEN 0 ELSE NumVal(SubSeq(f, 1, Len(f) - 1)) * 10 + DigitVal(f[Len(f)])

RECURSIVE Strip(_)
\* str.strip()
Strip(t) ==
    IF t = <<>> THEN t
    ELSE IF Head(t) = " " THEN Strip(Tail(t))
    ELSE IF t[Len(t)] = " " THEN Strip(SubSeq(t, 1, Len(t) - 1))
    ELSE t

RECURSIVE SplitOn(_, _)
\* str.split(sep)
SplitOn(t, sep) ==
    IF \A n \in 1..Len(t) : t[n] # sep THEN <<t>>
    ELSE LET i == CHOOSE n \in 1..Len(t) : t[n] = sep /\ \A k \in 1..(n - 1) : t[k] # sep
         IN  <<SubSeq(t, 1, i - 1)>> \o SplitOn(SubSeq(t, i + 1, Len(t)), sep)

\* strptime %d: 3[0-1] | [1-2]\d | 0[1-9] | [1-9] | " "[1-9]
DayField(f) ==
    IF Len(f) = 1 /\ f[1] \in Digits \ {"0"} THEN Some(DigitVal(f[1]))
    ELSE IF Len(f) = 2 /\ f[1] = " " /\ f[2] \in Digits \ {"0"} THEN Some(DigitVal(f[2]))
    ELSE IF Len(f) = 2 /\ AllDigits(f) /\ NumVal(f) \in 1..31 THEN Some(NumVal(f))
    ELSE None

\* strptime %m: 1[0-2] | 0[1-9] | [1-9]
MonthField(f) ==
    IF Len(f) \in {1, 2} /\ AllDigits(f) /\ NumVal(f) \in 1..12 THEN Some(NumVal(f))
    ELSE None

\* strptime %Y: \d\d\d\d, and date() needs year >= 1
YearField(f) ==
    IF Len(f) = 4 /\ AllDigits(f) /\ NumVal(f) >= 1 THEN Some(NumVal(f)) ELSE None

\* date(y, m, d) of three parsed fields; ValueError (None) when one is
\* missing or the day is not in the month.
DateOfFields(y, m, d) ==
    IF y = None \/ m = None \/ d = None THEN None
    ELSE IF Val(d) > DaysInMonth(Val(y), Val(m)) THEN None
    ELSE Some(DayOf(Val(y), Val(m), Val(d)))

\* datetime.strptime(text, fmt).date() for the three formats of the handlers.
Strptime(text, fmt) ==
    LET sep == IF fmt = "%d.%m.%Y" THEN "." ELSE IF fmt = "%d/%m/%Y" THEN "/" ELSE "-"
        f == SplitOn(text, sep)
    IN  IF Len(f) # 3 THEN None
        ELSE IF fmt = "%Y-%m-%d"
        THEN DateOfFields(YearField(f[1]), MonthField(f[2]), DayField(f[3]))
        ELSE DateOfFields(YearField(f[3]), MonthField(f[2]), DayField(f[1]))

\* The formats without the one with slashes.
ManualFormats_NoSlash == <<"%d.%m.%Y", "%Y-%m-%d">>

\* for fmt in ["%d.%m.%Y", "%d/%m/%Y", "%Y-%m-%d"]
ManualFormats == <<"%d.%m.%Y", "%d/%m/%Y", "%Y-%m-%d">>

RECURSIVE ParseFrom(_, _)
\* for fmt in [...]: try: parsed_date = strptime(text, fmt); break
ParseFrom(text, n) ==
    IF n > Len(ManualFormats) THEN None
    ELSE IF Strptime(text, ManualFormats[n]) # None THEN Strptime(text, ManualFormats[n])
    ELSE ParseFrom(text, n + 1)

ParseManualDate(text) == ParseFrom(text, 1)

\* ------------------------------------------------------------ configuration
\* config.MAX_DOCUMENTS_PER_USER
MAX_DOCUMENTS_PER_USER == 1
\* config.MAX_TEMPLATES_PER_USER
MAX_TEMPLATES_PER_USER == 1
\* config.ALLOWED_EXTENSIONS
ALLOWED_EXTENSIONS == {".pdf", ".jpg", ".png", ".docx"}
\* config.MAX_FILE_SIZE, in megabytes
MAX_FILE_SIZE == 20

\* config.UploadStates, and ConversationHandler.END (no conversation).
END == "END"
WAITING_NAME == "WAITING_NAME"
WAITING_START_DATE == "WAITING_START_DATE"
WAITING_END_DATE == "WAITING_END_DATE"
WAITING_TEMPLATE == "WAITING_TEMPLATE"
UploadStates == {WAITING_NAME, WAITING_START_DATE, WAITING_END_DATE, WAITING_TEMPLATE}

\* ------------------------------------------------------------------- inputs
Users == 1..NumUsers

\* Incoming files: a message with a document (file name, size) or a photo.
PdfFile == [kind |-> "document", file_id |-> "pdf1", file_name |-> Some(<<"scan", ".pdf">>),
            file_size |-> 1]
ExeFile == [kind |-> "document", file_id |-> "exe1", file_name |-> Some(<<"tool", ".exe">>),
            file_size |-> 1]
BigFile == [kind |-> "document", file_id |-> "pdf2", file_name |-> Some(<<"book", ".pdf">>),
            file_size |-> MAX_FILE_SIZE + 1]
Photo   == [kind |-> "photo", file_id |-> "ph1", file_name |-> None, file_size |-> 1]
Files == {PdfFile, ExeFile, BigFile, Photo}
NoFile == [kind |-> "none", file_id |-> "", file_name |-> None, file_size |-> 0]

\* Free texts a user types.
ShortText == <<"A">>
DateText == <<"2", "0", ".", "0", "1", ".", "2", "0", "2", "4">>
Texts == {ShortText, DateText}

\* Commands: the six registered ones and one that is not registered.
RegisteredCommands == {"start", "help", "mydocs", "templates", "cancel", "stats"}
Commands == RegisteredCommands \cup {"foo"}

\* The quick-date buttons of build_date_keyboard.
QuickOptions == {"today", "+1m", "+3m", "+6m", "+1y", "+2y", "+5y"}

\* Action tokens (callback data), split at "|".
Tokens ==
    {<<"start", offered>>, <<"start", "manual">>,
     <<"end", offered>>, <<"end", "manual">>, <<"end", "skip">>,
     <<"upload", "template", "skip">>, <<"upload", "template", "1">>,
     <<"tmpl", "create">>, <<"noop">>}

FileUpdate(f) == [text |-> <<>>, kind |-> "file", file |-> f, cmd |-> "", data |-> <<>>]
TextUpdate(t) == [text |-> t, kind |-> "text", file |-> NoFile, cmd |-> "", data |-> <<>>]
CommandUpdate(c) == [text |-> <<>>, kind |-> "command", file |-> NoFile, cmd |-> c, data |-> <<>>]
CallbackUpdate(d) == [text |-> <<>>, kind |-> "callback", file |-> NoFile, cmd |-> "", data |-> d]

Updates ==
    {FileUpdate(f) : f \in Files} \cup {TextUpdate(t) : t \in Texts}
        \cup {CommandUpdate(c) : c \in Commands} \cup {CallbackUpdate(d) : d \in Tokens}

\* int(segment): the number, or ValueError (None).
IntOf(seg) ==
    CASE seg = "0" -> Some(0) [] seg = "1" -> Some(1) [] seg = "2" -> Some(2)
      [] seg = "9" -> Some(9) [] seg = "-1" -> Some(-1)
      [] OTHER -> None

\* ------------------------------------------------------------------ utils.py
\* os.path.splitext(file_name.lower())[1]
SplitExt(file_name) == file_name[2]

\* validate_file(file_name, file_size) -> is_valid
validate_file(file_name, file_size) ==
    IF file_name = None THEN FALSE
    ELSE IF SplitExt(Val(file_name)) \notin ALLOWED_EXTENSIONS THEN FALSE
    ELSE IF file_size > MAX_FILE_SIZE THEN FALSE
    ELSE TRUE

\* get_file_type(file_name)
get_file_type(file_name) ==
    IF file_name = None THEN "unknown"
    ELSE LET ext == SplitExt(Val(file_name))
         IN  IF ext = ".pdf" THEN "pdf"
             ELSE IF ext \in {".doc", ".docx", ".odt", ".rtf"} THEN "document"
             ELSE IF ext \in {".xls", ".xlsx", ".ods"} THEN "spreadsheet"
             ELSE IF ext \in {".ppt", ".pptx", ".odp"} THEN "presentation"
             ELSE IF ext \in {".jpg", ".jpeg", ".png", ".gif", ".webp"} THEN "image"
             ELSE IF ext \in {".zip", ".rar", ".7z"} THEN "archive"
             ELSE IF ext = ".txt" THEN "text"
             ELSE "other"

\* -------------------------------------------------------------- database.py
\* get_documents_count(user_id)
get_documents_count(u) == Cardinality({d \in documents : d.user_id = u})

\* A template list that is never empty.
get_user_templates_NeverEmpty(u) == {[user_id |-> u, id |-> 0, name |-> <<>>]}

\* get_user_templates(user_id)
get_user_templates(u) == {t \in templates : t.user_id = u}

\* get_templates_count(user_id)
get_templates_count(u) == Cardinality(get_user_templates(u))

\* upload_data.get("name", <default>): the name given to a draft without
\* one, a text of 12 characters.
DefaultName == [n \in 1..12 |-> "?"]

\* A row built from one draft shared by all users: the draft of the first
\* user who has one.
DocumentRow_SharedDraft(u, draft) ==
    LET holders == {v \in DOMAIN user_data : user_data[v].upload # None}
        first == CHOOSE v \in holders : \A w \in holders : v <= w
        src == IF holders = {} THEN draft ELSE Val(user_data[first].upload)
    IN  [file_id |-> src.file_id, file_name |-> src.file_name,
         user_id |-> u,
         id |-> next_doc_id, name |-> IF src.name = None THEN DefaultName ELSE Val(src.name),
         file_type |-> src.file_type, start_date |-> src.start_date,
         end_date |-> draft.end_date, template_id |-> draft.template_id]

\* A row that loses the draft's start date.
DocumentRow_NoStart(u, draft) ==
    [file_id |-> draft.file_id, file_name |-> draft.file_name,
     user_id |-> u,
     id |-> next_doc_id, name |-> IF draft.name = None THEN DefaultName ELSE Val(draft.name),
     file_type |-> draft.file_type, start_date |-> None,
     end_date |-> draft.end_date, template_id |-> draft.template_id]

\* The row insert_document adds; its id is cur.lastrowid.
DocumentRow(u, draft) ==
    [file_id |-> draft.file_id, file_name |-> draft.file_name,
     user_id |-> u,
     id |-> next_doc_id, name |-> IF draft.name = None THEN DefaultName ELSE Val(draft.name),
     file_type |-> draft.file_type, start_date |-> draft.start_date,
     end_date |-> draft.end_date, template_id |-> draft.template_id]

\* ----------------------------------------------------- handlers/documents.py
\* context.user_data of a user with nothing stored.
EmptyUserData == [upload |-> None, creating_template |-> FALSE]

\* context.user_data["upload"] as upload_start creates it.
NewDraft(file_id, file_name) ==
    [file_id |-> file_id, file_name |-> file_name, name |-> None,
     file_type |-> get_file_type(file_name), start_date |-> None, end_date |-> None, template_id |-> None,
     waiting_manual_start |-> FALSE, waiting_manual_end |-> FALSE]

Upload(u) == user_data[u].upload
HasUpload(u) == Upload(u) # None

\* The limit check with the comparison off by one.
LimitReached_OffByOne(doc_count) == doc_count > MAX_DOCUMENTS_PER_USER

\* if doc_count >= MAX_DOCUMENTS_PER_USER
LimitReached(doc_count) == doc_count >= MAX_DOCUMENTS_PER_USER

\* The offsets of calendar months and years instead of days.
QuickDays_Calendar(option, day) ==
    LET c == CivilOf(day)
        months == CASE option = "+1m" -> 1 [] option = "+3m" -> 3 [] option = "+6m" -> 6
                    [] option = "+1y" -> 12 [] option = "+2y" -> 24 [] option = "+5y" -> 60
                    [] OTHER -> 0
        m0 == (c[1] * 12 + (c[2] - 1)) + months
        y == m0 \div 12
        m == (m0 % 12) + 1
        d == IF c[3] > DaysInMonth(y, m) THEN DaysInMonth(y, m) ELSE c[3]
    IN  IF option \in QuickOptions THEN Some(DayOf(y, m, d) - day) ELSE None

\* The if/elif chain of the date callbacks: the timedelta(days=...) of a quick
\* option, None for any other option.
QuickDays(option, day) ==
    CASE option = "today" -> Some(0)
      [] option = "+1m" -> Some(30)
      [] option = "+3m" -> Some(90)
      [] option = "+6m" -> Some(180)
      [] option = "+1y" -> Some(365)
      [] option = "+2y" -> Some(730)
      [] option = "+5y" -> Some(1825)
      [] OTHER -> None

\* selected_date = today + timedelta(days=...)
QuickDate(option, day) ==
    IF QuickDays(option, day) = None THEN None ELSE Some(day + Val(QuickDays(option, day)))

\* ------------------------------------------------------------------ helpers
RECURSIVE SortedIds(_)
\* The ids of a set in ascending order (rows come back in rowid order).
SortedIds(S) ==
    IF S = {} THEN <<>>
    ELSE LET m == CHOOSE x \in S : \A y \in S : x <= y
         IN  <<m>> \o SortedIds(S \ {m})

DocById(id) == CHOOSE d \in documents : d.id = id

\* ------------------------------------------------------------ database.py
\* CAST(julianday(d.end_date) - julianday(today) AS INTEGER): both are dates,
\* so the difference is a whole number of days.
DaysUntilExpiry(end_date, day) == Val(end_date) - day

\* The query with `<=` for `=`: every document that expires within `days`.
get_expiring_documents_Within(days) ==
    SortedIds({d.id : d \in {x \in documents :
        /\ x.user_id \in users
        /\ x.end_date # None
        /\ DaysUntilExpiry(x.end_date, today) <= days}})

\* get_expiring_documents(days): rows of documents JOIN users with an end date
\* whose remaining days equal `days` exactly.
get_expiring_documents(days) ==
    SortedIds({d.id : d \in {x \in documents :
        /\ x.user_id \in users
        /\ x.end_date # None
        /\ DaysUntilExpiry(x.end_date, today) = days}})

\* u.telegram_id AS user_telegram_id, under JOIN users u ON d.user_id =
\* u.telegram_id: the owner in the row the scan returned, which the loop
\* still holds when the document has been deleted since.
user_telegram_id(rows, doc_id) == (CHOOSE d \in rows : d.id = doc_id).user_id

\* is_reminder_sent with no row ever found (a dedup check that is skipped).
is_reminder_sent_Never(doc_id, days_before) == FALSE

\* is_reminder_sent(doc_id, days_before)
is_reminder_sent(doc_id, days_before) == <<doc_id, days_before>> \in reminders_sent

\* An INSERT with no unique index to stop it: a row is written every time.
InsertsRow_NoUnique(doc_id, days_before) == TRUE

\* INSERT OR IGNORE under UNIQUE(document_id, days_before): a row is written
\* only when the table has no row with that key; otherwise the statement is
\* skipped without an error.
InsertsRow(doc_id, days_before) == ~is_reminder_sent(doc_id, days_before)

\* mark_reminder_sent(doc_id, days_before): INSERT OR IGNORE.
mark_reminder_sent(doc_id, days_before) == reminders_sent \cup {<<doc_id, days_before>>}

\* ------------------------------------------------------------------ jobs.py
IdleJob ==
    [i |-> 0, k |-> 0, rows |-> {}, pc |-> "idle", docs |-> <<>>,
     sent_count |-> 0, start_day |-> 0, after_clean |-> FALSE,
     clean |-> TRUE, fetched |-> {}, matched |-> {}, checked |-> {},
     skipped |-> {}, attempted |-> {}, sent |-> {}, owed |-> {}, errors |-> 0,
     cause |-> "none", inserted |-> {}, addressed |-> {}]

\* The (document, threshold) pair a run is working on.
CurDays(r) == REMINDER_DAYS_BEFORE[r.i]
CurPair(r) == <<r.docs[r.k], CurDays(r)>>

\* A job is inside a synchronous stretch of send_reminders: the event loop
\* runs nothing else until it reaches `await context.bot.send_message`.
Busy(j) == job[j].pc \in {"fetch", "check", "mark"}
OthersQuiet(j) == \A o \in Jobs \ {j} : ~Busy(o)
NoneBusy == \A o \in Jobs : ~Busy(o)

\* The outcomes a store or delivery call may have: it fails only while the
\* behaviour's failures are below MaxFaults.
Outcomes == IF faults < MaxFaults THEN BOOLEAN ELSE {TRUE}

\* `for days in REMINDER_DAYS_BEFORE`: the next threshold, or the end of the run.
AfterThreshold(r) ==
    IF r.i < Len(REMINDER_DAYS_BEFORE)
    THEN [r EXCEPT !.pc = "fetch", !.i = r.i + 1, !.docs = <<>>, !.k = 0, !.rows = {}]
    ELSE [r EXCEPT !.pc = "done", !.docs = <<>>, !.k = 0, !.rows = {}]

\* `for doc in documents`: the next document, or the next threshold.
AfterDoc(r) ==
    IF r.k < Len(r.docs)
    THEN [r EXCEPT !.pc = "check", !.k = r.k + 1]
    ELSE AfterThreshold(r)

\* A failed delivery that leaves the loop (an except clause that re-raises).
SendFailed_Raise(r) ==
    [r EXCEPT !.pc = "raised", !.cause = "send_message",
              !.errors = r.errors + 1, !.clean = FALSE]

\* `except Exception as e: logger.error(...)` after a failed send_message:
\* the loop goes on with the next document.
SendFailed(r) ==
    AfterDoc([r EXCEPT !.errors = r.errors + 1, !.clean = FALSE])

\* A failed delivery that is recorded in the ledger all the same.
LedgerAfterSend_Always(r, ok) == mark_reminder_sent(r.docs[r.k], CurDays(r))

\* The ledger after `await context.bot.send_message` returned or raised:
\* nothing is written by the send itself.
LedgerAfterSend(r, ok) == reminders_sent

\* A run's record once it has ended, for the history of clean runs.
CleanDayAfter(r) ==
    IF r.pc = "done" /\ r.clean THEN Some(r.start_day) ELSE last_clean_day

\* The job queue starts send_reminders; it runs up to its first store call.
JobFire(j) ==
    /\ job[j].pc \in {"idle", "done", "raised"}
    /\ NoneBusy
    /\ IF j = "initial_reminders" THEN initial_pending ELSE ~daily_fired
    /\ job' = [job EXCEPT ![j] =
            [IdleJob EXCEPT !.pc = "fetch", !.i = 1, !.start_day = today,
                            !.after_clean = (last_clean_day = Some(today)),
                            !.owed = failed_pairs \ reminders_sent]]
    /\ initial_pending' = IF j = "initial_reminders" THEN FALSE ELSE initial_pending
    /\ daily_fired' = IF j = "daily_reminders" THEN TRUE ELSE daily_fired
    /\ UNCHANGED <<today, users, documents, reminders_sent, restarts,
                   deliveries, failed_pairs, faults, last_clean_day>>

\* documents = get_expiring_documents(days); a store error is not caught.
GetExpiringDocuments(j) ==
    /\ job[j].pc = "fetch"
    /\ \E ok \in Outcomes :
         LET r == job[j]
             found == get_expiring_documents(CurDays(r))
             r1 == [r EXCEPT !.docs = found, !.k = 0,
                             !.rows = {d \in documents :
                                          \E n \in 1..Len(found) : d.id = found[n]},
                             !.fetched = r.fetched \cup {r.i},
                             !.clean = r.clean /\ today = r.start_day,
                             !.matched = r.matched \cup
                                 {<<found[n], CurDays(r)>> : n \in 1..Len(found)}]
             r2 == IF ~ok
                   THEN [r EXCEPT !.pc = "raised", !.cause = "get_expiring_documents",
                                  !.clean = FALSE]
                   ELSE AfterDoc(r1)
         IN  /\ job' = [job EXCEPT ![j] = r2]
             /\ last_clean_day' = CleanDayAfter(r2)
             /\ faults' = IF ok THEN faults ELSE faults + 1
    /\ UNCHANGED <<today, users, documents, reminders_sent, initial_pending,
                   daily_fired, restarts, deliveries, failed_pairs>>

\* if is_reminder_sent(doc_id, days): continue; a store error is not caught.
IsReminderSent(j) ==
    /\ job[j].pc = "check"
    /\ \E ok \in Outcomes :
         LET r == job[j]
             p == CurPair(r)
             r2 == IF ~ok
                   THEN [r EXCEPT !.pc = "raised", !.cause = "is_reminder_sent",
                                  !.clean = FALSE]
                   ELSE IF is_reminder_sent(p[1], p[2])
                   THEN AfterDoc([r EXCEPT !.checked = r.checked \cup {p},
                                           !.skipped = r.skipped \cup {p}])
                   ELSE [r EXCEPT !.pc = "send", !.checked = r.checked \cup {p}]
         IN  /\ job' = [job EXCEPT ![j] = r2]
             /\ last_clean_day' = CleanDayAfter(r2)
             /\ faults' = IF ok THEN faults ELSE faults + 1
    /\ UNCHANGED <<today, users, documents, reminders_sent, initial_pending,
                   daily_fired, restarts, deliveries, failed_pairs>>

\* await context.bot.send_message(...): delivered, or an exception that the
\* except clause logs.
SendMessage(j) ==
    /\ job[j].pc = "send"
    /\ OthersQuiet(j)
    /\ \E ok \in Outcomes :
         LET r == job[j]
             p == CurPair(r)
             ra == [r EXCEPT !.attempted = r.attempted \cup {p},
                             !.addressed = r.addressed \cup
                                 {<<p[1], user_telegram_id(r.rows, p[1])>>}]
             r2 == IF ok
                   THEN [ra EXCEPT !.pc = "mark",
                                   !.sent = ra.sent \cup {<<p[1], p[2], today>>}]
                   ELSE SendFailed(ra)
         IN  /\ job' = [job EXCEPT ![j] = r2]
             /\ deliveries' = IF ok THEN [deliveries EXCEPT ![p] = @ + 1]
                              ELSE deliveries
             /\ failed_pairs' = IF ok THEN failed_pairs \ {p}
                                ELSE failed_pairs \cup {p}
             /\ reminders_sent' = LedgerAfterSend(r, ok)
             /\ last_clean_day' = CleanDayAfter(r2)
             /\ faults' = IF ok THEN faults ELSE faults + 1
    /\ UNCHANGED <<today, users, documents, initial_pending, daily_fired, restarts>>

\* mark_reminder_sent(doc_id, days); sent_count += 1, inside the try: a store
\* error here is caught by the same except clause.
MarkReminderSent(j) ==
    /\ job[j].pc = "mark"
    /\ \E ok \in Outcomes :
         LET r == job[j]
             p == CurPair(r)
             rows == IF InsertsRow(p[1], p[2]) THEN {p} ELSE {}
             r2 == IF ok
                   THEN AfterDoc([r EXCEPT !.sent_count = r.sent_count + 1,
                                           !.inserted = r.inserted \cup rows])
                   ELSE AfterDoc([r EXCEPT !.errors = r.errors + 1, !.clean = FALSE])
         IN  /\ job' = [job EXCEPT ![j] = r2]
             /\ reminders_sent' = IF ok THEN mark_reminder_sent(p[1], p[2])
                                  ELSE reminders_sent
             /\ last_clean_day' = CleanDayAfter(r2)
             /\ faults' = IF ok THEN faults ELSE faults + 1
    /\ UNCHANGED <<today, users, documents, initial_pending, daily_fired, restarts,
                   deliveries, failed_pairs>>

\* The process stops at any point and is started again: running coroutines
\* are lost, the store is kept, setup_jobs schedules the initial run anew.
Restart ==
    /\ restarts < MaxRestarts
    /\ restarts' = restarts + 1
    /\ job' = [j \in Jobs |-> IdleJob]
    /\ initial_pending' = TRUE
    /\ UNCHANGED <<today, users, documents, reminders_sent, daily_fired,
                   deliveries, failed_pairs, faults, last_clean_day>>

\* Midnight: date.today() moves on, and the daily job is due again.
NextDay ==
    /\ today < MaxDay
    /\ NoneBusy
    /\ today' = today + 1
    /\ daily_fired' = FALSE
    /\ UNCHANGED <<users, documents, reminders_sent, job, initial_pending, restarts,
                   deliveries, failed_pairs, faults, last_clean_day>>

\* ------------------------------------------------------- the reminder job alone
SchedDocIds == 1..NumDocs
EndDates == {None} \cup {Some(e) : e \in 0..MaxEnd}
AllPairs == SchedDocIds \X Thresholds

SchedDocument(id, end) ==
    [file_id |-> "file", file_name |-> "a.pdf", user_id |-> id, id |-> id,
     name |-> <<"d", "o", "c">>, file_type |-> "pdf",
     start_date |-> Some(0), end_date |-> end, template_id |-> None]

\* No list paginated yet.
NoPager ==
    [builder |-> "", count |-> 0, page_size |-> 1, page |-> 0, total_pages |-> None,
     shown |-> {}, prev |-> FALSE, next |-> FALSE]

\* No update handled yet.
NoEvent ==
    [day |-> 0, doc_id |-> None, user |-> 0, handler |-> "",
     update |-> CommandUpdate(""), was |-> END, raised |-> FALSE, reply |-> "", acked |-> FALSE]

SchedInit ==
    /\ today = 0
    /\ users = SchedDocIds
    /\ \E ends \in [SchedDocIds -> EndDates] :
         documents = {SchedDocument(id, ends[id]) : id \in SchedDocIds}
    /\ reminders_sent = {}
    /\ job = [j \in Jobs |-> IdleJob]
    /\ initial_pending = TRUE
    /\ daily_fired = FALSE
    /\ restarts = 0
    /\ deliveries = [p \in AllPairs |-> 0]
    /\ failed_pairs = {}
    /\ faults = 0
    /\ last_clean_day = None
    /\ templates = {}
    /\ next_doc_id = NumDocs + 1
    /\ next_tmpl_id = 1
    /\ conv = [u \in Users |-> END]
    /\ user_data = [u \in Users |-> EmptyUserData]
    /\ offered = "today"
    /\ event = NoEvent
    /\ pager = NoPager
    /\ txn = <<>>

SchedNext ==
    \/ \E j \in Jobs : JobFire(j) /\ UNCHANGED convVars
    \/ \E j \in Jobs : GetExpiringDocuments(j) /\ UNCHANGED convVars
    \/ \E j \in Jobs : IsReminderSent(j) /\ UNCHANGED convVars
    \/ \E j \in Jobs : SendMessage(j) /\ UNCHANGED convVars
    \/ \E j \in Jobs : MarkReminderSent(j) /\ UNCHANGED convVars
    \/ Restart /\ UNCHANGED convVars
    \/ NextDay /\ UNCHANGED convVars

SchedSpec == SchedInit /\ [][SchedNext]_vars

\* ------------------------------------------------------------------- bot.py
\* The scheduler's variables and the paginator's history, which no update
\* handler writes.
jobRest == <<today, reminders_sent, job, initial_pending, daily_fired, restarts,
             deliveries, failed_pairs, last_clean_day>>
schedRest == <<jobRest, pager, txn>>

\* re.match(r"^a\|b\|", data): the token starts with these segments and a "|".
HasPrefix(data, pre) == Len(data) > Len(pre) /\ SubSeq(data, 1, Len(pre)) = pre

\* get_command_handlers(): CommandHandler(name, callback)
CommandMatch(upd) ==
    IF upd.kind # "command" THEN ""
    ELSE CASE upd.cmd = "start" -> "cmd_start"
           [] upd.cmd = "help" -> "cmd_help"
           [] upd.cmd = "mydocs" -> "cmd_mydocs"
           [] upd.cmd = "templates" -> "cmd_templates"
           [] upd.cmd = "cancel" -> "cmd_cancel"
           [] upd.cmd = "stats" -> "cmd_stats"
           [] OTHER -> ""

\* The conversation without re-entry: entry points are tried only when the
\* user has no conversation.
ALLOW_REENTRY_Off == FALSE

\* get_document_conversation_handler(): allow_reentry=True
ALLOW_REENTRY == TRUE

\* entry_points: MessageHandler(filters.Document.ALL | filters.PHOTO, upload_start)
EntryMatch(upd) == IF upd.kind = "file" THEN "upload_start" ELSE ""

\* States whose callback handlers are tried whatever the state the user is in.
StateMatch_AnyState(state, upd) ==
    IF state = WAITING_NAME
    THEN IF upd.kind = "text" THEN "upload_name" ELSE ""
    ELSE IF upd.kind = "callback" /\ HasPrefix(upd.data, <<"start">>)
    THEN "upload_start_date_callback"
    ELSE IF upd.kind = "callback" /\ HasPrefix(upd.data, <<"end">>)
    THEN "upload_end_date_callback"
    ELSE IF upd.kind = "callback" /\ HasPrefix(upd.data, <<"upload", "template">>)
    THEN "upload_template_callback"
    ELSE IF upd.kind = "text" /\ state = WAITING_START_DATE THEN "upload_start_date_manual"
    ELSE IF upd.kind = "text" /\ state = WAITING_END_DATE THEN "upload_end_date_manual"
    ELSE ""

\* states: the handlers of a conversation state, first match first.
StateMatch(state, upd) ==
    CASE state = WAITING_NAME ->
             IF upd.kind = "text" THEN "upload_name" ELSE ""
      [] state = WAITING_START_DATE ->
             IF upd.kind = "callback" /\ HasPrefix(upd.data, <<"start">>)
             THEN "upload_start_date_callback"
             ELSE IF upd.kind = "text" THEN "upload_start_date_manual" ELSE ""
      [] state = WAITING_END_DATE ->
             IF upd.kind = "callback" /\ HasPrefix(upd.data, <<"end">>)
             THEN "upload_end_date_callback"
             ELSE IF upd.kind = "text" THEN "upload_end_date_manual" ELSE ""
      [] state = WAITING_TEMPLATE ->
             IF upd.kind = "callback" /\ HasPrefix(upd.data, <<"upload", "template">>)
             THEN "upload_template_callback" ELSE ""
      [] OTHER -> ""

\* fallbacks: MessageHandler(filters.COMMAND, upload_cancel)
FallbackMatch(upd) == IF upd.kind = "command" THEN "upload_cancel" ELSE ""

\* ConversationHandler.check_update: entry points (no conversation, or
\* re-entry), then the state's handlers, then the fallbacks.
ConversationMatch(state, upd) ==
    IF (state = END \/ ALLOW_REENTRY) /\ EntryMatch(upd) # "" THEN EntryMatch(upd)
    ELSE IF state = END THEN ""
    ELSE IF StateMatch(state, upd) # "" THEN StateMatch(state, upd)
    ELSE FallbackMatch(upd)

\* The segments of the model's tokens that begin with "yes": what the
\* look-ahead (?!yes) refuses after the last "|" of the pattern.
StartsWithYes(seg) == seg \in {"yes", "yes1"}

\* The patterns with the delete pattern cut short, r"^doc\|delete", which
\* accepts every token whose second segment begins with "delete".
DocumentMatch_LooseDelete(upd) ==
    IF upd.kind # "callback" THEN ""
    ELSE IF HasPrefix(upd.data, <<"doc", "view">>) THEN "view_document"
    ELSE IF HasPrefix(upd.data, <<"doc", "download">>) THEN "download_document"
    ELSE IF Len(upd.data) >= 2 /\ upd.data[1] = "doc"
              /\ upd.data[2] \in {"delete", "delete_yes"} THEN "delete_document_confirm"
    ELSE IF HasPrefix(upd.data, <<"doc", "delete_yes">>) THEN "delete_document_execute"
    ELSE IF HasPrefix(upd.data, <<"doc", "edit">>) THEN "edit_document_menu"
    ELSE IF HasPrefix(upd.data, <<"mydocs", "list">>) THEN "mydocs_list"
    ELSE ""

\* get_document_callback_handlers(): the patterns in the order of the list.
DocumentMatch(upd) ==
    IF upd.kind # "callback" THEN ""
    ELSE IF HasPrefix(upd.data, <<"doc", "view">>) THEN "view_document"
    ELSE IF HasPrefix(upd.data, <<"doc", "download">>) THEN "download_document"
    ELSE IF HasPrefix(upd.data, <<"doc", "delete">>) /\ ~StartsWithYes(upd.data[3])
    THEN "delete_document_confirm"
    ELSE IF HasPrefix(upd.data, <<"doc", "delete_yes">>) THEN "delete_document_execute"
    ELSE IF HasPrefix(upd.data, <<"doc", "edit">>) THEN "edit_document_menu"
    ELSE IF HasPrefix(upd.data, <<"mydocs", "list">>) THEN "mydocs_list"
    ELSE ""

\* get_template_handlers(): the callback patterns, then the text handler.
TemplateMatch(upd) ==
    IF upd.kind = "text" THEN "create_template_name"
    ELSE IF upd.kind # "callback" THEN ""
    ELSE IF HasPrefix(upd.data, <<"tmpl", "view">>) THEN "view_template"
    ELSE IF HasPrefix(upd.data, <<"tmpl", "docs">>) THEN "template_documents_list"
    ELSE IF HasPrefix(upd.data, <<"tmpl", "delete">>) /\ ~StartsWithYes(upd.data[3])
    THEN "delete_template_confirm"
    ELSE IF HasPrefix(upd.data, <<"tmpl", "delete_yes">>) THEN "delete_template_execute"
    ELSE IF HasPrefix(upd.data, <<"templates", "list">>) THEN "templates_list"
    ELSE IF HasPrefix(upd.data, <<"templates", "page">>) THEN "templates_list"
    ELSE IF upd.data = <<"tmpl", "create">> THEN "create_template_start"
    ELSE ""

\* get_callback_dispatcher(): r"^noop$"
CallbackDispatcherMatch(upd) ==
    IF upd.kind = "callback" /\ upd.data = <<"noop">> THEN "noop_callback" ELSE ""

\* The dispatch with the template handlers added before the conversation.
Dispatch_TemplatesFirst(u, upd) ==
    IF CommandMatch(upd) # "" THEN CommandMatch(upd)
    ELSE IF TemplateMatch(upd) # "" THEN TemplateMatch(upd)
    ELSE IF ConversationMatch(conv[u], upd) # "" THEN ConversationMatch(conv[u], upd)
    ELSE IF DocumentMatch(upd) # "" THEN DocumentMatch(upd)
    ELSE IF CallbackDispatcherMatch(upd) # "" THEN CallbackDispatcherMatch(upd)
    ELSE "none"

\* Application.process_update over the handlers in the order main() adds
\* them: the first handler whose check_update accepts the update runs.
Dispatch(u, upd) ==
    IF CommandMatch(upd) # "" THEN CommandMatch(upd)
    ELSE IF ConversationMatch(conv[u], upd) # "" THEN ConversationMatch(conv[u], upd)
    ELSE IF DocumentMatch(upd) # "" THEN DocumentMatch(upd)
    ELSE IF TemplateMatch(upd) # "" THEN TemplateMatch(upd)
    ELSE IF CallbackDispatcherMatch(upd) # "" THEN CallbackDispatcherMatch(upd)
    ELSE "none"

\* What a handled update leaves behind: the conversation state the handler
\* returned, the user's data, and the record of the update.
Done(u, upd, h, state, ud, reply, acked, doc_id) ==
    /\ conv' = [conv EXCEPT ![u] = state]
    /\ user_data' = [user_data EXCEPT ![u] = ud]
    /\ event' = [day |-> today, doc_id |-> doc_id, user |-> u, handler |-> h,
                 update |-> upd, was |-> conv[u], raised |-> FALSE, reply |-> reply, acked |-> acked]

\* A handler that raised: the conversation state is not updated.
Raised(u, upd, h, ud, acked) ==
    /\ conv' = conv
    /\ user_data' = [user_data EXCEPT ![u] = ud]
    /\ event' = [day |-> today, doc_id |-> None, user |-> u, handler |-> h,
                 update |-> upd, was |-> conv[u], raised |-> TRUE, reply |-> "", acked |-> acked]

NoStore == UNCHANGED <<documents, next_doc_id, faults>>

\* save_document / save_document_from_callback with the user's data `ud`.
SaveDocument(u, upd, h, ud, acked, ok) ==
    IF ud.upload = None
    THEN Done(u, upd, h, END, ud, "error_generic", acked, None) /\ NoStore
    ELSE IF ~ok
    THEN /\ Raised(u, upd, h, ud, acked)
         /\ faults' = faults + 1
         /\ UNCHANGED <<documents, next_doc_id>>
    ELSE /\ documents' = documents \cup {DocumentRow(u, Val(ud.upload))}
         /\ next_doc_id' = next_doc_id + 1
         /\ faults' = faults
         /\ Done(u, upd, h, END, [ud EXCEPT !.upload = None], "upload_success",
                 acked, Some(next_doc_id))

\* upload_start: a file or photo arrived.
upload_start(u, upd) ==
    /\ Dispatch(u, upd) = "upload_start"
    /\ users' = users \cup {u}
    /\ LET f == upd.file
           file_name == IF f.kind = "document" THEN f.file_name
                        ELSE Some(<<"photo_" , ".jpg">>)
       IN  IF LimitReached(get_documents_count(u))
           THEN Done(u, upd, "upload_start", END, user_data[u],
                     "limit_reached_documents", FALSE, None)
           ELSE IF ~validate_file(file_name, f.file_size)
           THEN Done(u, upd, "upload_start", END, user_data[u], "invalid_file", FALSE, None)
           ELSE Done(u, upd, "upload_start", WAITING_NAME,
                     [user_data[u] EXCEPT !.upload = Some(NewDraft(f.file_id, file_name))],
                     "upload_start", FALSE, None)
    /\ NoStore
    /\ UNCHANGED <<templates, next_tmpl_id, offered, schedRest>>

\* upload_name: the document's name was typed.
upload_name(u, upd) ==
    /\ Dispatch(u, upd) = "upload_name"
    /\ LET name == Strip(upd.text)
           cut == IF Len(name) > 100 THEN SubSeq(name, 1, 100) ELSE name
       IN  IF Len(name) < 2
           THEN Done(u, upd, "upload_name", WAITING_NAME, user_data[u],
                     "upload_name_invalid", FALSE, None)
           ELSE IF ~HasUpload(u)
           THEN Raised(u, upd, "upload_name", user_data[u], FALSE)
           ELSE Done(u, upd, "upload_name", WAITING_START_DATE,
                     [user_data[u] EXCEPT !.upload = Some([Val(@) EXCEPT !.name = Some(cut)])],
                     "upload_select_start_date", FALSE, None)
    /\ NoStore
    /\ UNCHANGED <<users, templates, next_tmpl_id, offered, schedRest>>

\* upload_start_date_callback: a start|<option> button.
upload_start_date_callback(u, upd) ==
    /\ Dispatch(u, upd) = "upload_start_date_callback"
    /\ LET data == upd.data
           h == "upload_start_date_callback"
           selected == QuickDate(data[2], today)
       IN  IF Len(data) < 2
           THEN Done(u, upd, h, WAITING_START_DATE, user_data[u], "", TRUE, None)
           ELSE IF selected # None
           THEN IF ~HasUpload(u) THEN Raised(u, upd, h, user_data[u], TRUE)
                ELSE Done(u, upd, h, WAITING_END_DATE,
                          [user_data[u] EXCEPT
                              !.upload = Some([Val(@) EXCEPT !.start_date = selected])],
                          "upload_select_end_date", TRUE, None)
           ELSE IF data[2] = "manual"
           THEN IF ~HasUpload(u) THEN Raised(u, upd, h, user_data[u], TRUE)
                ELSE Done(u, upd, h, WAITING_START_DATE,
                          [user_data[u] EXCEPT
                              !.upload = Some([Val(@) EXCEPT !.waiting_manual_start = TRUE])],
                          "enter_start_date", TRUE, None)
           ELSE Done(u, upd, h, WAITING_START_DATE, user_data[u], "", TRUE, None)
    /\ NoStore
    /\ UNCHANGED <<users, templates, next_tmpl_id, offered, schedRest>>

\* upload_start_date_manual: free text while the start date is awaited.
upload_start_date_manual(u, upd) ==
    /\ Dispatch(u, upd) = "upload_start_date_manual"
    /\ LET h == "upload_start_date_manual"
           parsed == ParseManualDate(Strip(upd.text))
       IN  IF ~(HasUpload(u) /\ Val(Upload(u)).waiting_manual_start)
           THEN Done(u, upd, h, WAITING_START_DATE, user_data[u], "", FALSE, None)
           ELSE IF parsed = None
           THEN Done(u, upd, h, WAITING_START_DATE, user_data[u], "bad_date", FALSE, None)
           ELSE Done(u, upd, h, WAITING_END_DATE,
                     [user_data[u] EXCEPT
                         !.upload = Some([Val(@) EXCEPT !.start_date = parsed,
                                                        !.waiting_manual_start = FALSE])],
                     "upload_select_end_date", FALSE, None)
    /\ NoStore
    /\ UNCHANGED <<users, templates, next_tmpl_id, offered, schedRest>>

\* upload_end_date_callback: an end|<option> button; then
\* show_template_selection, which saves when the user owns no template.
upload_end_date_callback(u, upd) ==
    /\ Dispatch(u, upd) = "upload_end_date_callback"
    /\ \E ok \in Outcomes :
       LET data == upd.data
           h == "upload_end_date_callback"
           selected == IF data[2] = "skip" THEN None ELSE QuickDate(data[2], today)
           ud == [user_data[u] EXCEPT !.upload = Some([Val(@) EXCEPT !.end_date = selected])]
       IN  IF Len(data) < 2
           THEN Done(u, upd, h, WAITING_END_DATE, user_data[u], "", TRUE, None) /\ NoStore
           ELSE IF data[2] = "skip" \/ selected # None
           THEN IF ~HasUpload(u) THEN Raised(u, upd, h, user_data[u], TRUE) /\ NoStore
                ELSE IF get_user_templates(u) = {}
                THEN SaveDocument(u, upd, h, ud, TRUE, ok)
                ELSE Done(u, upd, h, WAITING_TEMPLATE, ud, "upload_select_template",
                          TRUE, None) /\ NoStore
           ELSE IF data[2] = "manual"
           THEN IF ~HasUpload(u) THEN Raised(u, upd, h, user_data[u], TRUE) /\ NoStore
                ELSE Done(u, upd, h, WAITING_END_DATE,
                          [user_data[u] EXCEPT
                              !.upload = Some([Val(@) EXCEPT !.waiting_manual_end = TRUE])],
                          "enter_end_date", TRUE, None) /\ NoStore
           ELSE Done(u, upd, h, WAITING_END_DATE, user_data[u], "", TRUE, None) /\ NoStore
    /\ UNCHANGED <<users, templates, next_tmpl_id, offered, schedRest>>

\* upload_end_date_manual: free text while the end date is awaited.
upload_end_date_manual(u, upd) ==
    /\ Dispatch(u, upd) = "upload_end_date_manual"
    /\ \E ok \in Outcomes :
       LET h == "upload_end_date_manual"
           parsed == ParseManualDate(Strip(upd.text))
           ud == [user_data[u] EXCEPT
                     !.upload = Some([Val(@) EXCEPT !.end_date = parsed,
                                                    !.waiting_manual_end = FALSE])]
       IN  IF ~(HasUpload(u) /\ Val(Upload(u)).waiting_manual_end)
           THEN Done(u, upd, h, WAITING_END_DATE, user_data[u], "", FALSE, None) /\ NoStore
           ELSE IF parsed = None
           THEN Done(u, upd, h, WAITING_END_DATE, user_data[u], "bad_date", FALSE, None)
                /\ NoStore
           ELSE IF get_user_templates(u) = {}
           THEN SaveDocument(u, upd, h, ud, FALSE, ok)
           ELSE Done(u, upd, h, WAITING_TEMPLATE, ud, "upload_select_template", FALSE, None)
                /\ NoStore
    /\ UNCHANGED <<users, templates, next_tmpl_id, offered, schedRest>>

\* upload_template_callback: an upload|template|<id or skip> button.
upload_template_callback(u, upd) ==
    /\ Dispatch(u, upd) = "upload_template_callback"
    /\ \E ok \in Outcomes :
       LET data == upd.data
           h == "upload_template_callback"
           tid == IF data[3] = "skip" THEN None ELSE IntOf(data[3])
           ud == [user_data[u] EXCEPT !.upload = Some([Val(@) EXCEPT !.template_id = tid])]
       IN  IF Len(data) < 3
           THEN Done(u, upd, h, WAITING_TEMPLATE, user_data[u], "", TRUE, None) /\ NoStore
           ELSE IF ~HasUpload(u) THEN Raised(u, upd, h, user_data[u], TRUE) /\ NoStore
           ELSE SaveDocument(u, upd, h, ud, TRUE, ok)
    /\ UNCHANGED <<users, templates, next_tmpl_id, offered, schedRest>>

\* A cancel that also stores the draft it discards.
upload_cancel_Saving(u, upd) ==
    /\ Dispatch(u, upd) = "upload_cancel"
    /\ Done(u, upd, "upload_cancel", END, [user_data[u] EXCEPT !.upload = None],
            "upload_cancelled", FALSE, None)
    /\ documents' = IF HasUpload(u) THEN documents \cup {DocumentRow(u, Val(Upload(u)))}
                    ELSE documents
    /\ next_doc_id' = IF HasUpload(u) THEN next_doc_id + 1 ELSE next_doc_id
    /\ UNCHANGED <<faults, users, templates, next_tmpl_id, offered, schedRest>>

\* upload_cancel: the conversation's fallback for commands.
upload_cancel(u, upd) ==
    /\ Dispatch(u, upd) = "upload_cancel"
    /\ Done(u, upd, "upload_cancel", END, [user_data[u] EXCEPT !.upload = None],
            "upload_cancelled", FALSE, None)
    /\ NoStore
    /\ UNCHANGED <<users, templates, next_tmpl_id, offered, schedRest>>

\* ------------------------------------------------------ handlers/commands.py
\* A handler outside the conversation: Application.process_update discards
\* what it returns, so the conversation state stays what it was.
Global(u, upd, h, ud, reply, acked) == Done(u, upd, h, conv[u], ud, reply, acked, None)

convRest == <<templates, next_tmpl_id, offered, schedRest>>

\* cmd_start: /start
cmd_start(u, upd) ==
    /\ Dispatch(u, upd) = "cmd_start"
    /\ users' = users \cup {u}
    /\ Global(u, upd, "cmd_start", user_data[u], "welcome", FALSE)
    /\ NoStore
    /\ UNCHANGED convRest

\* cmd_help: /help
cmd_help(u, upd) ==
    /\ Dispatch(u, upd) = "cmd_help"
    /\ Global(u, upd, "cmd_help", user_data[u], "help", FALSE)
    /\ NoStore
    /\ UNCHANGED <<users, convRest>>

\* cmd_mydocs: /mydocs
cmd_mydocs(u, upd) ==
    /\ Dispatch(u, upd) = "cmd_mydocs"
    /\ Global(u, upd, "cmd_mydocs", user_data[u],
              IF get_documents_count(u) = 0 THEN "no_documents" ELSE "mydocs", FALSE)
    /\ NoStore
    /\ UNCHANGED <<users, convRest>>

\* cmd_templates: /templates
cmd_templates(u, upd) ==
    /\ Dispatch(u, upd) = "cmd_templates"
    /\ Global(u, upd, "cmd_templates", user_data[u],
              IF get_user_templates(u) = {} THEN "no_templates" ELSE "templates", FALSE)
    /\ NoStore
    /\ UNCHANGED <<users, convRest>>

\* cmd_cancel: /cancel. context.user_data.clear(); the ConversationHandler.END
\* it returns goes to no conversation handler.
cmd_cancel(u, upd) ==
    /\ Dispatch(u, upd) = "cmd_cancel"
    /\ Global(u, upd, "cmd_cancel", EmptyUserData, "operation_cancelled", FALSE)
    /\ NoStore
    /\ UNCHANGED <<users, convRest>>

\* cmd_stats: /stats
cmd_stats(u, upd) ==
    /\ Dispatch(u, upd) = "cmd_stats"
    /\ Global(u, upd, "cmd_stats", user_data[u], "stats", FALSE)
    /\ NoStore
    /\ UNCHANGED <<users, convRest>>

\* ----------------------------------------------------- handlers/templates.py
\* insert_template(user_id, name): the new row, or None when the user has a
\* template of that name.
insert_template(u, name) ==
    IF \E t \in templates : t.user_id = u /\ t.name = name THEN None
    ELSE Some([user_id |-> u, id |-> next_tmpl_id, name |-> name])

\* create_template_start: the tmpl|create button.
create_template_start(u, upd) ==
    /\ Dispatch(u, upd) = "create_template_start"
    /\ IF get_templates_count(u) >= MAX_TEMPLATES_PER_USER
       THEN Global(u, upd, "create_template_start", user_data[u],
                   "limit_reached_templates", TRUE)
       ELSE Global(u, upd, "create_template_start",
                   [user_data[u] EXCEPT !.creating_template = TRUE],
                   "template_create_prompt", TRUE)
    /\ NoStore
    /\ UNCHANGED <<users, convRest>>

\* create_template_name: free text no earlier handler took.
create_template_name(u, upd) ==
    /\ Dispatch(u, upd) = "create_template_name"
    /\ LET h == "create_template_name"
           name == Strip(upd.text)
           cut == IF Len(name) > 50 THEN SubSeq(name, 1, 50) ELSE name
           row == insert_template(u, cut)
       IN  IF ~user_data[u].creating_template
           THEN Global(u, upd, h, user_data[u], "", FALSE)
                /\ UNCHANGED <<templates, next_tmpl_id>>
           ELSE IF Len(name) < 2
           THEN Global(u, upd, h, user_data[u], "template_name_short", FALSE)
                /\ UNCHANGED <<templates, next_tmpl_id>>
           ELSE IF row = None
           THEN Global(u, upd, h, user_data[u], "template_name_exists", FALSE)
                /\ UNCHANGED <<templates, next_tmpl_id>>
           ELSE /\ templates' = templates \cup {Val(row)}
                /\ next_tmpl_id' = next_tmpl_id + 1
                /\ Global(u, upd, h, [user_data[u] EXCEPT !.creating_template = FALSE],
                          "template_created", FALSE)
    /\ NoStore
    /\ UNCHANGED <<users, offered, schedRest>>

\* ----------------------------------------------------- handlers/callbacks.py
\* noop_callback: answers the query and does nothing else.
noop_callback(u, upd) ==
    /\ Dispatch(u, upd) = "noop_callback"
    /\ Global(u, upd, "noop_callback", user_data[u], "", TRUE)
    /\ NoStore
    /\ UNCHANGED <<users, convRest>>

\* No handler accepts the update (the catch-all callback handler is not
\* registered): nothing runs.
Unhandled(u, upd) ==
    /\ Dispatch(u, upd) = "none"
    /\ Global(u, upd, "none", user_data[u], "", FALSE)
    /\ NoStore
    /\ UNCHANGED <<users, convRest>>

\* ------------------------------------------------- the update handlers alone
ConvInit ==
    /\ today \in 0..MaxDay
    /\ users = {}
    /\ documents = {}
    /\ reminders_sent = {}
    /\ job = [j \in Jobs |-> IdleJob]
    /\ initial_pending = TRUE
    /\ daily_fired = FALSE
    /\ restarts = 0
    /\ deliveries = [p \in AllPairs |-> 0]
    /\ failed_pairs = {}
    /\ faults = 0
    /\ last_clean_day = None
    /\ templates = {}
    /\ next_doc_id = 1
    /\ next_tmpl_id = 1
    /\ conv = [u \in Users |-> END]
    /\ user_data = [u \in Users |-> EmptyUserData]
    /\ offered \in QuickOptions
    /\ event = NoEvent
    /\ pager = NoPager
    /\ txn = <<>>

ConvNext ==
    \/ \E u \in Users, f \in Files : upload_start(u, FileUpdate(f))
    \/ \E u \in Users, t \in Texts : upload_name(u, TextUpdate(t))
    \/ \E u \in Users, d \in Tokens : upload_start_date_callback(u, CallbackUpdate(d))
    \/ \E u \in Users, t \in Texts : upload_start_date_manual(u, TextUpdate(t))
    \/ \E u \in Users, d \in Tokens : upload_end_date_callback(u, CallbackUpdate(d))
    \/ \E u \in Users, t \in Texts : upload_end_date_manual(u, TextUpdate(t))
    \/ \E u \in Users, d \in Tokens : upload_template_callback(u, CallbackUpdate(d))
    \/ \E u \in Users, c \in Commands : upload_cancel(u, CommandUpdate(c))
    \/ \E u \in Users : cmd_start(u, CommandUpdate("start"))
    \/ \E u \in Users : cmd_help(u, CommandUpdate("help"))
    \/ \E u \in Users : cmd_mydocs(u, CommandUpdate("mydocs"))
    \/ \E u \in Users : cmd_templates(u, CommandUpdate("templates"))
    \/ \E u \in Users : cmd_cancel(u, CommandUpdate("cancel"))
    \/ \E u \in Users : cmd_stats(u, CommandUpdate("stats"))
    \/ \E u \in Users, d \in Tokens : create_template_start(u, CallbackUpdate(d))
    \/ \E u \in Users, t \in Texts : create_template_name(u, TextUpdate(t))
    \/ \E u \in Users, d \in Tokens : noop_callback(u, CallbackUpdate(d))
    \/ \E u \in Users, upd \in Updates : Unhandled(u, upd)

ConvSpec == ConvInit /\ [][ConvNext]_vars

\* --------------------------------------- document and template callbacks
\* The lookup without the owner in its WHERE clause.
get_document_by_id_AnyOwner(doc_id, u) == {d \in documents : d.id = doc_id}

\* get_document_by_id(doc_id, user_id): the rows (none or one) with that id
\* and that owner.
get_document_by_id(doc_id, u) == {d \in documents : d.id = doc_id /\ d.user_id = u}

\* get_template_by_id(template_id, user_id)
get_template_by_id(template_id, u) == {t \in templates : t.id = template_id /\ t.user_id = u}

\* A callback handler that reads the store and edits the message.
ReadOnly(u, upd, h, reply) ==
    /\ Global(u, upd, h, user_data[u], reply, TRUE)
    /\ NoStore
    /\ UNCHANGED <<users, convRest>>

Max(a, b) == IF a >= b THEN a ELSE b

Min(a, b) == IF a <= b THEN a ELSE b

\* items[start:stop] of a Python list of `count` items, as the set of the
\* indices it holds: a negative bound counts from the end, and both bounds
\* are clamped to the list.
PyBound(count, b) == IF b < 0 THEN Max(0, b + count) ELSE Min(b, count)
PySlice(count, start, stop) ==
    {i \in 0..(count - 1) : PyBound(count, start) <= i /\ i < PyBound(count, stop)}

\* start_idx = page * page_size; end_idx = min(start_idx + page_size, len(items));
\* items[start_idx:end_idx]
PageItems(count, page, page_size) ==
    PySlice(count, page * page_size, Min(page * page_size + page_size, count))

\* The test with the last page taken for one that has a successor.
HasNext_OffByOne(page, total_pages) == page < total_pages

\* if page > 0: the "previous" button; if page < total_pages - 1: the "next" button
HasPrev(page) == page > 0
HasNext(page, total_pages) == page < total_pages - 1

\* A callback handler that reads the store and edits the message into page
\* `page` of a list of `count` rows, ten to a page; `guarded` says whether
\* its navigation row is under `if total_pages > 1`.
Listed(u, upd, h, reply, count, page, total_pages, guarded) ==
    /\ Global(u, upd, h, user_data[u], reply, TRUE)
    /\ NoStore
    /\ pager' = [builder |-> h, count |-> count, page_size |-> 10, page |-> page,
                 total_pages |-> Some(total_pages),
                 shown |-> PageItems(count, page, 10),
                 prev |-> (guarded => total_pages > 1) /\ HasPrev(page),
                 next |-> (guarded => total_pages > 1) /\ HasNext(page, total_pages)]
    /\ UNCHANGED <<users, templates, next_tmpl_id, offered, jobRest, txn>>

\* int(data[n]) raised ValueError after query.answer().
ValueError(u, upd, h) ==
    /\ Raised(u, upd, h, user_data[u], TRUE)
    /\ NoStore
    /\ UNCHANGED <<users, convRest>>

\* The shape view_document, download_document, delete_document_confirm and
\* edit_document_menu share: split, int(data[2]), get_document_by_id, reply.
DocumentCallback(u, upd, h, found) ==
    /\ Dispatch(u, upd) = h
    /\ IF Len(upd.data) < 3 THEN ReadOnly(u, upd, h, "")
       ELSE IF IntOf(upd.data[3]) = None THEN ValueError(u, upd, h)
       ELSE IF get_document_by_id(Val(IntOf(upd.data[3])), u) = {}
       THEN ReadOnly(u, upd, h, "document_not_found")
       ELSE ReadOnly(u, upd, h, found)

view_document(u, upd) == DocumentCallback(u, upd, "view_document", "document_info")

download_document(u, upd) == DocumentCallback(u, upd, "download_document", "send_document")

delete_document_confirm(u, upd) ==
    DocumentCallback(u, upd, "delete_document_confirm", "delete_confirm")

edit_document_menu(u, upd) == DocumentCallback(u, upd, "edit_document_menu", "edit_menu")

\* The store variables delete_document and delete_template leave alone.
storeRest == <<today, job, initial_pending, daily_fired, restarts, deliveries, failed_pairs,
               last_clean_day, users, next_doc_id, next_tmpl_id, faults, offered,
               pager>>

\* The store a connection sees: <<rows of documents, rows of reminders_sent>>.
\* DELETE FROM reminders_sent WHERE document_id = ?
DeleteReminderRows(store, doc_id) ==
    <<store[1], {r \in store[2] : r[1] # doc_id}>>

\* DELETE FROM documents WHERE id = ? AND user_id = ?
DeleteDocumentRow(store, doc_id, user_id) ==
    <<{d \in store[1] : ~(d.id = doc_id /\ d.user_id = user_id)}, store[2]>>

\* delete_document with its two DELETE statements in the other order.
delete_document_ParentFirst(doc_id, user_id) ==
    LET s0 == <<documents, reminders_sent>>
        s1 == DeleteDocumentRow(s0, doc_id, user_id)
        s2 == DeleteReminderRows(s1, doc_id)
    IN  IF get_document_by_id(doc_id, user_id) = {} THEN <<s0>> ELSE <<s0, s1, s2>>

\* delete_document(doc_id, user_id), on one connection: the store after the
\* SELECT of the ownership check and, when it found the row, after each of
\* the two DELETE statements; the last of them is what the commit leaves.
delete_document(doc_id, user_id) ==
    LET s0 == <<documents, reminders_sent>>
        s1 == DeleteReminderRows(s0, doc_id)
        s2 == DeleteDocumentRow(s1, doc_id, user_id)
    IN  IF get_document_by_id(doc_id, user_id) = {} THEN <<s0>> ELSE <<s0, s1, s2>>

\* delete_document_execute: int(data[2]), delete_document(doc_id, user_id),
\* and the reply for what it returned.
delete_document_execute(u, upd) ==
    LET h == "delete_document_execute"
        id == Val(IntOf(upd.data[3]))
        stores == delete_document(id, u)
    IN  /\ Dispatch(u, upd) = h
        /\ IF Len(upd.data) < 3 THEN ReadOnly(u, upd, h, "")
           ELSE IF IntOf(upd.data[3]) = None THEN ValueError(u, upd, h)
           ELSE /\ txn' = stores
                /\ documents' = stores[Len(stores)][1]
                /\ reminders_sent' = stores[Len(stores)][2]
                /\ Global(u, upd, h, user_data[u],
                          IF Len(stores) > 1 THEN "delete_success" ELSE "delete_error", TRUE)
                /\ UNCHANGED <<templates, storeRest>>

\* mydocs_list: page = int(data[2]) if len(data) > 2 else 0
mydocs_list(u, upd) ==
    LET h == "mydocs_list"
    IN  /\ Dispatch(u, upd) = h
        /\ IF Len(upd.data) > 2 /\ IntOf(upd.data[3]) = None THEN ValueError(u, upd, h)
           ELSE IF get_documents_count(u) = 0 THEN ReadOnly(u, upd, h, "no_documents")
           ELSE Listed(u, upd, h, "mydocs_page", get_documents_count(u),
                       IF Len(upd.data) > 2 THEN Val(IntOf(upd.data[3])) ELSE 0,
                       (get_documents_count(u) + 9) \div 10, FALSE)

\* view_template and delete_template_confirm: int(data[2]), get_template_by_id.
TemplateCallback(u, upd, h, found) ==
    /\ Dispatch(u, upd) = h
    /\ IF Len(upd.data) < 3 THEN ReadOnly(u, upd, h, "")
       ELSE IF IntOf(upd.data[3]) = None THEN ValueError(u, upd, h)
       ELSE IF get_template_by_id(Val(IntOf(upd.data[3])), u) = {}
       THEN ReadOnly(u, upd, h, "template_not_found")
       ELSE ReadOnly(u, upd, h, found)

view_template(u, upd) == TemplateCallback(u, upd, "view_template", "template_info")

delete_template_confirm(u, upd) ==
    TemplateCallback(u, upd, "delete_template_confirm", "delete_template_confirm")

\* template_documents_list: int(data[2]), int(data[3]), get_template_by_id.
template_documents_list(u, upd) ==
    LET h == "template_documents_list"
    IN  /\ Dispatch(u, upd) = h
        /\ IF Len(upd.data) < 4 THEN ReadOnly(u, upd, h, "")
           ELSE IF IntOf(upd.data[3]) = None \/ IntOf(upd.data[4]) = None
           THEN ValueError(u, upd, h)
           ELSE IF get_template_by_id(Val(IntOf(upd.data[3])), u) = {}
           THEN ReadOnly(u, upd, h, "template_not_found")
           ELSE LET count == Cardinality({d \in documents :
                                 d.user_id = u /\ d.template_id = IntOf(upd.data[3])})
                    pages == (count + 9) \div 10
                IN  Listed(u, upd, h, "template_documents_page", count,
                           Val(IntOf(upd.data[4])), IF pages > 1 THEN pages ELSE 1, TRUE)

\* delete_template_execute, with delete_template(template_id, user_id): the
\* documents are unlinked, then the template is deleted.
delete_template_execute(u, upd) ==
    LET h == "delete_template_execute"
        id == Val(IntOf(upd.data[3]))
    IN  /\ Dispatch(u, upd) = h
        /\ IF Len(upd.data) < 3 THEN ReadOnly(u, upd, h, "")
           ELSE IF IntOf(upd.data[3]) = None THEN ValueError(u, upd, h)
           ELSE IF get_template_by_id(id, u) = {}
           THEN ReadOnly(u, upd, h, "error_generic")
           ELSE /\ documents' = {IF d.template_id = Some(id)
                                 THEN [d EXCEPT !.template_id = None] ELSE d : d \in documents}
                /\ templates' = templates \ get_template_by_id(id, u)
                /\ Global(u, upd, h, user_data[u], "template_deleted", TRUE)
                /\ UNCHANGED <<reminders_sent, storeRest, txn>>

\* templates_list: page = int(data[2]) if len(data) > 2 else 0
templates_list(u, upd) ==
    LET h == "templates_list"
    IN  /\ Dispatch(u, upd) = h
        /\ IF Len(upd.data) > 2 /\ IntOf(upd.data[3]) = None THEN ValueError(u, upd, h)
           ELSE IF get_user_templates(u) = {} THEN ReadOnly(u, upd, h, "no_templates")
           ELSE ReadOnly(u, upd, h, "templates_page")

\* ------------------------------------- the document and template buttons alone
\* An owner of records who is not one of the callers.
OtherOwner == NumUsers + 1

\* The ids the tokens carry: the caller's record, the other owner's record,
\* and no record.
IdSegments == {"1", "2", "9"}

\* Tokens of the document and template keyboards, and malformed ones: an
\* empty or non-numeric argument, a missing segment, an unknown namespace.
BrowseTokens ==
    {<<"doc", op, id>> : op \in {"view", "download", "delete", "delete_yes", "edit"},
                         id \in IdSegments}
    \cup {<<"tmpl", op, id>> : op \in {"view", "delete", "delete_yes"}, id \in IdSegments}
    \cup {<<"tmpl", "docs", "1", "0">>, <<"tmpl", "docs", "1">>, <<"tmpl", "docs", "1", "x">>,
          <<"tmpl", "docs", "1", "1">>, <<"tmpl", "docs", "1", "-1">>,
          <<"mydocs", "list", "0">>, <<"mydocs", "list", "x">>, <<"mydocs", "list", "">>,
          <<"mydocs", "list", "1">>, <<"mydocs", "list", "-1">>,
          <<"templates", "list", "0">>, <<"templates", "page", "x">>,
          <<"doc", "view", "">>, <<"doc", "view">>, <<"doc", "delete", "yes">>,
          <<"tmpl", "delete", "yes1">>, <<"doc", "delete_yes", "x">>,
          <<"edit", "name", "1">>, <<"noop">>}

BrowseDocument(id, owner, tid) ==
    [file_id |-> "pdf1", file_name |-> Some(<<"scan", ".pdf">>), user_id |-> owner, id |-> id,
     name |-> DateText, file_type |-> "pdf",
     start_date |-> Some(0), end_date |-> Some(0), template_id |-> tid]

\* Two owners with one document and one template each; the caller's document
\* may be filed under the caller's template; reminders of day 0 were sent.
BrowseInit ==
    /\ today = 0
    /\ users = {1, OtherOwner}
    /\ \E tid \in {None, Some(1)} :
         documents = {BrowseDocument(1, 1, tid), BrowseDocument(2, OtherOwner, Some(2))}
    /\ templates = {[user_id |-> 1, id |-> 1, name |-> ShortText],
                    [user_id |-> OtherOwner, id |-> 2, name |-> ShortText]}
    /\ reminders_sent = {<<1, 0>>, <<2, 0>>}
    /\ job = [j \in Jobs |-> IdleJob]
    /\ initial_pending = FALSE
    /\ daily_fired = TRUE
    /\ restarts = 0
    /\ deliveries = [p \in AllPairs |-> IF p \in {<<1, 0>>, <<2, 0>>} THEN 1 ELSE 0]
    /\ failed_pairs = {}
    /\ faults = 0
    /\ last_clean_day = Some(0)
    /\ next_doc_id = 3
    /\ next_tmpl_id = 3
    /\ conv = [u \in Users |-> END]
    /\ user_data = [u \in Users |-> EmptyUserData]
    /\ offered = "today"
    /\ event = NoEvent
    /\ pager = NoPager
    /\ txn = <<>>

BrowseNext ==
    \E u \in Users, d \in BrowseTokens :
        \/ view_document(u, CallbackUpdate(d))
        \/ download_document(u, CallbackUpdate(d))
        \/ delete_document_confirm(u, CallbackUpdate(d))
        \/ delete_document_execute(u, CallbackUpdate(d))
        \/ edit_document_menu(u, CallbackUpdate(d))
        \/ mydocs_list(u, CallbackUpdate(d))
        \/ view_template(u, CallbackUpdate(d))
        \/ template_documents_list(u, CallbackUpdate(d))
        \/ delete_template_confirm(u, CallbackUpdate(d))
        \/ delete_template_execute(u, CallbackUpdate(d))
        \/ templates_list(u, CallbackUpdate(d))
        \/ noop_callback(u, CallbackUpdate(d))
        \/ Unhandled(u, CallbackUpdate(d))

BrowseSpec == BrowseInit /\ [][BrowseNext]_vars

\* ------------------------------------------------------ the paginators alone
\* The longest list paginated, the page sizes, and the last page asked for
\* (pages run from -1, a page before the first, to MaxPage).
MaxItems == 25
PageSizes == {1, 8, 10}
MaxPage == 2

\* build_pagination_keyboard: total_pages = (len(items) + page_size - 1) // page_size
PaginationTotalPages(count, page_size) == (count + page_size - 1) \div page_size

\* build_templates_keyboard: total_pages = max(1, (len(templates) + page_size - 1) // page_size)
TemplatesTotalPages(count, page_size) == Max(1, (count + page_size - 1) \div page_size)

\* mydocs_list: no page count for an empty list (it replies no_documents and
\* returns); otherwise (len(documents) + page_size - 1) // page_size, page_size = 10.
MydocsTotalPages(count) == IF count = 0 THEN None ELSE Some((count + 10 - 1) \div 10)

\* template_documents_list: max(1, (len(documents) + page_size - 1) // page_size), page_size = 10.
TemplateDocsTotalPages(count) == Max(1, (count + 10 - 1) \div 10)

\* templates_list: no page count for an empty list; otherwise
\* max(1, (len(templates) + 7) // 8).
TemplatesListTotalPages(count) == IF count = 0 THEN None ELSE Some(Max(1, (count + 7) \div 8))

pageRest == <<schedVars, templates, next_doc_id, next_tmpl_id, conv, user_data, offered, event,
              txn>>

\* A builder renders page pager.page of a list of pager.count items; `total`
\* is its page count (None when it returned before paginating) and `guarded`
\* says whether its navigation row is under `if total_pages > 1`.
Rendered(builder, total, guarded) ==
    LET nav == total # None /\ (guarded => Val(total) > 1)
    IN  [pager EXCEPT
           !.builder = builder,
           !.total_pages = total,
           !.shown = IF total = None THEN {}
                     ELSE PageItems(pager.count, pager.page, pager.page_size),
           !.prev = nav /\ HasPrev(pager.page),
           !.next = nav /\ HasNext(pager.page, Val(total))]

Paginate(builder, total, guarded) ==
    /\ pager.builder = ""
    /\ pager' = Rendered(builder, total, guarded)
    /\ UNCHANGED pageRest

build_pagination_keyboard ==
    Paginate("build_pagination_keyboard",
             Some(PaginationTotalPages(pager.count, pager.page_size)), TRUE)

build_templates_keyboard ==
    Paginate("build_templates_keyboard",
             Some(TemplatesTotalPages(pager.count, pager.page_size)), TRUE)

mydocs_list_pages ==
    /\ pager.page_size = 10
    /\ Paginate("mydocs_list", MydocsTotalPages(pager.count), FALSE)

template_documents_list_pages ==
    /\ pager.page_size = 10
    /\ Paginate("template_documents_list", Some(TemplateDocsTotalPages(pager.count)), TRUE)

templates_list_pages ==
    /\ pager.page_size = 8
    /\ Paginate("templates_list", TemplatesListTotalPages(pager.count), TRUE)

\* A list of any length up to MaxItems is about to be paginated.
PageInit ==
    /\ today = 0
    /\ users = {}
    /\ documents = {}
    /\ reminders_sent = {}
    /\ job = [j \in Jobs |-> IdleJob]
    /\ initial_pending = TRUE
    /\ daily_fired = FALSE
    /\ restarts = 0
    /\ deliveries = [p \in AllPairs |-> 0]
    /\ failed_pairs = {}
    /\ faults = 0
    /\ last_clean_day = None
    /\ templates = {}
    /\ next_doc_id = 1
    /\ next_tmpl_id = 1
    /\ conv = [u \in Users |-> END]
    /\ user_data = [u \in Users |-> EmptyUserData]
    /\ offered = "today"
    /\ event = NoEvent
    /\ \E c \in 0..MaxItems, s \in PageSizes, p \in (-1)..MaxPage :
         pager = [NoPager EXCEPT !.count = c, !.page_size = s, !.page = p]
    /\ txn = <<>>

PageNext ==
    \/ build_pagination_keyboard
    \/ build_templates_keyboard
    \/ mydocs_list_pages
    \/ template_documents_list_pages
    \/ templates_list_pages

PageSpec == PageInit /\ [][PageNext]_vars

\* ------------------------------------------------- manual date entry alone
\* Texts typed as a date: one calendar date in the three formats, the same
\* with surrounding blanks, and texts no format accepts.
SlashDateText == <<"2", "0", "/", "0", "1", "/", "2", "0", "2", "4">>
IsoDateText == <<"2", "0", "2", "4", "-", "0", "1", "-", "2", "0">>
PaddedDateText == <<" ">> \o DateText \o <<" ">>
BadDayText == <<"3", "1", ".", "0", "2", ".", "2", "0", "2", "4">>
SwappedText == <<"2", "0", "2", "4", ".", "0", "1", ".", "2", "0">>
WordText == <<"J", "a", "n">>
ManualTexts ==
    {DateText, SlashDateText, IsoDateText, PaddedDateText, BadDayText, SwappedText, WordText}

ManualInit == ConvInit /\ today = 0 /\ offered = "today"

ManualNext ==
    \/ \E u \in Users : upload_start(u, FileUpdate(PdfFile))
    \/ \E u \in Users : upload_name(u, TextUpdate(WordText))
    \/ \E u \in Users, o \in {offered, "manual"} :
           upload_start_date_callback(u, CallbackUpdate(<<"start", o>>))
    \/ \E u \in Users, t \in ManualTexts : upload_start_date_manual(u, TextUpdate(t))
    \/ \E u \in Users, o \in {"skip", "manual"} :
           upload_end_date_callback(u, CallbackUpdate(<<"end", o>>))
    \/ \E u \in Users, t \in ManualTexts : upload_end_date_manual(u, TextUpdate(t))
    \/ \E u \in Users, t \in ManualTexts : create_template_name(u, TextUpdate(t))

ManualSpec == ManualInit /\ [][ManualNext]_vars

\* ------------------------------ one upload: file, name, start|today, end|+1y
FlowInit == ConvInit /\ offered = "today"

FlowNext ==
    \/ \E u \in Users, f \in Files : upload_start(u, FileUpdate(f))
    \/ \E u \in Users, t \in Texts : upload_name(u, TextUpdate(t))
    \/ \E u \in Users : upload_start_date_callback(u, CallbackUpdate(<<"start", "today">>))
    \/ \E u \in Users, t \in Texts : upload_start_date_manual(u, TextUpdate(t))
    \/ \E u \in Users : upload_end_date_callback(u, CallbackUpdate(<<"end", "+1y">>))
    \/ \E u \in Users, t \in Texts : upload_end_date_manual(u, TextUpdate(t))
    \/ \E u \in Users, t \in Texts : create_template_name(u, TextUpdate(t))
    \/ \E u \in Users, o \in {<<"start", "today">>, <<"end", "+1y">>} :
           Unhandled(u, CallbackUpdate(o))

FlowSpec == FlowInit /\ [][FlowNext]_vars

\* ------------------------------------------------------ two users uploading
\* Two users, each with a context.user_data and a conversation of their own.
PairUsers == {1, 2}

PairInit ==
    /\ today = 0
    /\ users = {}
    /\ documents = {}
    /\ reminders_sent = {}
    /\ job = [j \in Jobs |-> IdleJob]
    /\ initial_pending = TRUE
    /\ daily_fired = FALSE
    /\ restarts = 0
    /\ deliveries = [p \in AllPairs |-> 0]
    /\ failed_pairs = {}
    /\ faults = 0
    /\ last_clean_day = None
    /\ templates = {}
    /\ next_doc_id = 1
    /\ next_tmpl_id = 1
    /\ conv = [u \in PairUsers |-> END]
    /\ user_data = [u \in PairUsers |-> EmptyUserData]
    /\ offered = "today"
    /\ event = NoEvent
    /\ pager = NoPager
    /\ txn = <<>>

PairNext ==
    \/ \E u \in PairUsers, f \in {PdfFile, Photo, ExeFile} : upload_start(u, FileUpdate(f))
    \/ \E u \in PairUsers : upload_name(u, TextUpdate(DateText))
    \/ \E u \in PairUsers : upload_start_date_callback(u, CallbackUpdate(<<"start", "today">>))
    \/ \E u \in PairUsers : upload_end_date_callback(u, CallbackUpdate(<<"end", "+1y">>))
    \/ \E u \in PairUsers : upload_cancel(u, CommandUpdate("foo"))
    \/ \E u \in PairUsers : cmd_cancel(u, CommandUpdate("cancel"))
    \/ \E u \in PairUsers : create_template_name(u, TextUpdate(DateText))
    \/ \E u \in PairUsers : Unhandled(u, CallbackUpdate(<<"start", "today">>))

PairSpec == PairInit /\ [][PairNext]_vars

\* ================================================================ properties
\* ---- the reminder job (SchedSpec)

\* The pairs get_expiring_documents finds on a day, over all thresholds.
EligibleOn(day) ==
    {<<d.id, t>> : d \in {x \in documents : x.end_date # None}, t \in Thresholds}
        \cap {p \in AllPairs : \E d \in documents :
                 /\ d.id = p[1] /\ d.end_date # None
                 /\ DaysUntilExpiry(d.end_date, day) = p[2]}

PairsOf(sent) == {<<s[1], s[2]>> : s \in sent}

\* C1: for every (document, threshold) pair at most one reminder is ever
\* delivered, over any runs of send_reminders, restarts and overlapping runs
\* included.
C1_AtMostOneDelivery == \A p \in AllPairs : deliveries[p] <= 1

\* C2: a run that starts after a run of the same day completed with every
\* delivery and ledger write succeeding delivers nothing on that day; and the
\* run that completed so delivered each pair it found unrecorded exactly once
\* and left every eligible pair of the day recorded.
C2_SecondRunSendsNothing ==
    \A j \in Jobs :
        LET r == job[j]
        IN  /\ r.after_clean => \A s \in r.sent : s[3] # r.start_day
            /\ (r.pc = "done" /\ r.clean) =>
                   /\ r.matched = EligibleOn(r.start_day)
                   /\ r.matched \subseteq reminders_sent
                   /\ PairsOf(r.sent) = r.matched \ r.skipped
                   /\ r.sent_count = Cardinality(r.sent)

\* C2 witness: a second run of the day has completed after a clean one, and
\* skipped a pair the first had delivered once.
C2_Witness ==
    \E j \in Jobs :
        /\ job[j].pc = "done" /\ job[j].after_clean /\ job[j].start_day = today
        /\ \E p \in job[j].skipped : deliveries[p] = 1

\* C3: every ledger record is of a pair whose notification was delivered; a
\* failed delivery writes no record.
C3_LedgerOnlyAfterDelivery == \A p \in reminders_sent : deliveries[p] >= 1

\* C3 witness: one pair is recorded after its delivery, another pair's
\* delivery failed and it has no record.
C3_Witness ==
    /\ \E p \in reminders_sent : deliveries[p] = 1
    /\ \E q \in failed_pairs : q \notin reminders_sent /\ deliveries[q] = 0

\* C4: a delivery failure never ends the run by raising, and a run that has
\* ended went through every threshold, checked every match, and attempted
\* every match it did not find recorded.
C4_FailureDoesNotAbort ==
    \A j \in Jobs :
        LET r == job[j]
        IN  /\ r.cause # "send_message"
            /\ r.pc = "done" =>
                   /\ r.fetched = 1..Len(REMINDER_DAYS_BEFORE)
                   /\ r.checked = r.matched
                   /\ \A p \in r.checked : p \in r.attempted \/ p \in r.skipped
                   /\ r.skipped \subseteq reminders_sent

\* C4 witness: a run has ended in which the delivery for one document failed
\* and the next document of the same threshold was delivered afterwards.
C4_Witness ==
    \E j \in Jobs : \E p \in job[j].attempted, q \in PairsOf(job[j].sent) :
        /\ job[j].pc = "done"
        /\ p \in failed_pairs
        /\ p[2] = q[2] /\ p[1] < q[1]

\* C5: a pair whose delivery failed is attempted again by the next run (or is
\* recorded by then): stated for every run that began after the failure and
\* has ended.
C5_FailedDeliveryRetriedNextRun ==
    \A j \in Jobs :
        job[j].pc = "done" =>
            \A p \in job[j].owed : p \in job[j].attempted \/ p \in reminders_sent

\* C6: a store failure inside send_reminders is skipped, never raised: no run
\* ends by raising out of a store call.
C6_StoreFailureSkipped ==
    \A j \in Jobs :
        job[j].cause \notin {"get_expiring_documents", "is_reminder_sent",
                             "mark_reminder_sent"}

\* ---- the update handlers (ConvSpec)

\* C7: from every awaiting state of the upload conversation, once the cancel
\* command has been handled the user's conversation is ended and the draft is
\* gone, so that the next text or button is not taken by the upload dialogue.
C7_CancelEndsConversation ==
    (event.update.kind = "command" /\ event.update.cmd = "cancel"
        /\ event.was \in UploadStates)
    => (conv[event.user] = END /\ ~HasUpload(event.user))

\* C8: once any command (registered or not) has been handled for a user who
\* was in an awaiting state of the upload conversation, the conversation is
\* ended and the draft is gone.
C8_AnyCommandEndsConversation ==
    (event.update.kind = "command" /\ event.was \in UploadStates)
    => (conv[event.user] = END /\ ~HasUpload(event.user))

\* C9: when a user who is in no conversation and owns at least
\* MAX_DOCUMENTS_PER_USER documents sends a file, the conversation does not
\* start, the reply is the limit message, and the user's data is left as it
\* was: no draft is created and nothing is stored.
C9_LimitStep ==
    \A u \in Users :
        (/\ event'.handler = "upload_start"
         /\ event'.user = u
         /\ conv[u] = END
         /\ get_documents_count(u) >= MAX_DOCUMENTS_PER_USER)
        => /\ conv'[u] = END
           /\ event'.reply = "limit_reached_documents"
           /\ user_data'[u] = user_data[u]
           /\ ~HasUpload(u)'
           /\ documents' = documents

C9_LimitRejectsFile == [][C9_LimitStep]_vars

C9_Witness ==
    /\ event.handler = "upload_start"
    /\ event.was = END
    /\ get_documents_count(event.user) >= MAX_DOCUMENTS_PER_USER
    /\ event.reply = "limit_reached_documents"
    /\ conv[event.user] = END

\* The day counts the specification lists for the quick options.
SpecOffset(option) ==
    CASE option = "today" -> 0 [] option = "+1m" -> 30 [] option = "+3m" -> 90
      [] option = "+6m" -> 180 [] option = "+1y" -> 365 [] option = "+2y" -> 730
      [] option = "+5y" -> 1825

\* C10: for every quick option, the date a start|<option> button stores as the
\* draft's start date, and the date an end|<option> button stores as the end
\* date (of the draft, or of the document when it is saved at once), is the
\* day of the button press plus exactly 0, 30, 90, 180, 365, 730 or 1825 days.
C10_QuickDateIsDayOffset ==
    LET u == event.user
        option == event.update.data[2]
        expected == Some(event.day + SpecOffset(option))
    IN  /\ (event.handler = "upload_start_date_callback" /\ option \in QuickOptions
               /\ ~event.raised)
           => (conv[u] = WAITING_END_DATE /\ Val(Upload(u)).start_date = expected)
        /\ (event.handler = "upload_end_date_callback" /\ option \in QuickOptions)
           => IF event.doc_id # None
              THEN DocById(Val(event.doc_id)).end_date = expected
              ELSE HasUpload(u) => Val(Upload(u)).end_date = expected

\* The specification's example: +1m pressed on 2024-01-15 gives 2024-02-14,
\* in the start step and then in the end step of one upload.
C10_Witness ==
    /\ event.handler = "upload_end_date_callback"
    /\ event.update.data[2] = "+1m"
    /\ event.day = DayOf(2024, 1, 15)
    /\ event.doc_id # None
    /\ DocById(Val(event.doc_id)).start_date = Some(DayOf(2024, 2, 14))
    /\ DocById(Val(event.doc_id)).end_date = Some(DayOf(2024, 2, 14))

\* The handler of the last update took an end date (a quick option, skip, or
\* a text that parsed) for a draft that exists.
EndDateChosen ==
    \/ /\ event.handler = "upload_end_date_callback"
       /\ event.update.data[2] \in QuickOptions \cup {"skip"}
       /\ (event.doc_id # None \/ HasUpload(event.user))
    \/ /\ event.handler = "upload_end_date_manual"
       /\ (event.doc_id # None \/ event.raised \/ event.reply = "upload_select_template")

\* C12: when the end date is chosen (quick option, skip or manual text) by a
\* user who owns no template, the conversation does not enter
\* WAITING_TEMPLATE; and, the store accepting the insert, the document is
\* saved at once with no template and the conversation is ended, the draft
\* gone.
C12_NoTemplatesSkipsTemplateStep ==
    LET u == event.user
    IN  (EndDateChosen /\ {t \in templates : t.user_id = u} = {})
        => /\ conv[u] # WAITING_TEMPLATE
           /\ ~event.raised
              => /\ event.doc_id # None
                 /\ DocById(Val(event.doc_id)).user_id = u
                 /\ DocById(Val(event.doc_id)).template_id = None
                 /\ conv[u] = END
                 /\ ~HasUpload(u)

C12_Witness ==
    /\ event.handler = "upload_end_date_callback"
    /\ event.update.data[2] = "skip"
    /\ event.was = WAITING_END_DATE
    /\ templates = {}
    /\ event.doc_id # None
    /\ DocById(Val(event.doc_id)).template_id = None
    /\ conv[event.user] = END

\* The handlers of the upload conversation.
UploadHandlers ==
    {"upload_start", "upload_name", "upload_start_date_callback",
     "upload_start_date_manual", "upload_end_date_callback", "upload_end_date_manual",
     "upload_template_callback", "upload_cancel"}

\* C14: whenever a handler of the upload conversation ends the conversation,
\* exactly one of these happened: one document was inserted and success was
\* reported; the store failed, nothing was inserted and the generic error was
\* reported; or the upload was discarded (cancel, limit, rejected file) and
\* nothing was inserted.
C14_TerminalStep ==
    \A u \in Users :
        LET inserted == documents' \ documents
            success == /\ Cardinality(inserted) = 1
                       /\ \A d \in inserted : d.user_id = u /\ Some(d.id) = event'.doc_id
                       /\ event'.reply = "upload_success"
            failure == /\ inserted = {}
                       /\ event'.doc_id = None
                       /\ event'.reply = "error_generic"
            discard == /\ inserted = {}
                       /\ event'.doc_id = None
                       /\ event'.reply \in {"upload_cancelled", "limit_reached_documents",
                                            "invalid_file"}
        IN  (/\ event'.user = u
             /\ event'.handler \in UploadHandlers
             /\ conv'[u] = END
             /\ (conv[u] # END \/ event'.handler = "upload_start"))
            => /\ documents \subseteq documents'
               /\ \/ success /\ ~failure /\ ~discard
                  \/ failure /\ ~success /\ ~discard
                  \/ discard /\ ~success /\ ~failure

C14_TerminalHasOneOutcome == [][C14_TerminalStep]_vars

C14_Witness ==
    /\ event.handler = "upload_cancel"
    /\ event.was = WAITING_TEMPLATE
    /\ conv[event.user] = END
    /\ event.reply = "upload_cancelled"
    /\ documents = {}

\* C15: when insert_document fails while a draft is being saved, the user
\* gets the generic error reply, the conversation is ended, the draft is gone
\* and nothing is stored.
C15_StoreFailureStep ==
    \A u \in Users :
        (event'.user = u /\ faults' = faults + 1)
        => /\ event'.reply = "error_generic"
           /\ ~event'.raised
           /\ conv'[u] = END
           /\ user_data'[u].upload = None
           /\ documents' = documents

C15_StoreFailureAbandons == [][C15_StoreFailureStep]_vars

\* C17: while a user is in an awaiting state, a button or a free text that a
\* handler of that state accepts is handled by that handler of the
\* conversation, never by a handler registered after the conversation; free
\* text in particular never goes to create_template_name.
C17_ConversationBeforeGlobal ==
    (/\ event.was \in UploadStates
     /\ event.update.kind \in {"text", "callback"}
     /\ StateMatch(event.was, event.update) # "")
    => /\ event.handler = StateMatch(event.was, event.update)
       /\ event.handler \in UploadHandlers
       /\ event.handler \notin {"create_template_name", "create_template_start",
                                "noop_callback", "none"}

C17_Witness ==
    /\ event.handler = "upload_name"
    /\ event.was = WAITING_NAME
    /\ event.update.kind = "text"
    /\ user_data[event.user].creating_template
    /\ conv[event.user] = WAITING_START_DATE

\* C18: every button press is acknowledged (query.answer()), whether or not a
\* registered pattern matches its token.
C18_EveryTokenAcknowledged ==
    event.update.kind = "callback" => event.acked

\* ---- manual date entry (ManualSpec)

\* The first of DD.MM.YYYY, DD/MM/YYYY, YYYY-MM-DD that accepts the text.
FirstFormatThatParses(text) ==
    IF Strptime(text, "%d.%m.%Y") # None THEN Strptime(text, "%d.%m.%Y")
    ELSE IF Strptime(text, "%d/%m/%Y") # None THEN Strptime(text, "%d/%m/%Y")
    ELSE Strptime(text, "%Y-%m-%d")

\* C11: a text typed while a manual date is awaited is read as DD.MM.YYYY,
\* then DD/MM/YYYY, then YYYY-MM-DD, and the first format that parses gives the
\* stored date; the three spellings of 20 January 2024 give the same date; a
\* text that no format accepts (and a text typed when no manual date is
\* awaited) leaves the conversation state and the user's data unchanged.
C11_ManualStep ==
    \A u \in Users :
        LET text == Strip(event'.update.text)
            expected == FirstFormatThatParses(text)
            start == event'.handler = "upload_start_date_manual"
            flag == /\ HasUpload(u)
                    /\ IF start THEN Val(Upload(u)).waiting_manual_start
                       ELSE Val(Upload(u)).waiting_manual_end
        IN  (/\ event'.user = u
             /\ event'.handler \in {"upload_start_date_manual", "upload_end_date_manual"})
            => /\ (flag /\ expected # None /\ start)
                  => (conv'[u] = WAITING_END_DATE
                        /\ Val(user_data'[u].upload).start_date = expected)
               /\ (flag /\ expected # None /\ ~start)
                  => IF event'.doc_id # None
                     THEN \E d \in documents' \ documents : d.end_date = expected
                     ELSE Val(user_data'[u].upload).end_date = expected
               /\ (~flag \/ expected = None)
                  => (conv'[u] = conv[u] /\ user_data'[u] = user_data[u]
                        /\ documents' = documents)
               /\ FirstFormatThatParses(DateText) = Some(DayOf(2024, 1, 20))
               /\ FirstFormatThatParses(SlashDateText) = Some(DayOf(2024, 1, 20))
               /\ FirstFormatThatParses(IsoDateText) = Some(DayOf(2024, 1, 20))

C11_ManualDateFormats == [][C11_ManualStep]_vars

C11_Witness ==
    /\ event.handler = "upload_end_date_manual"
    /\ event.update.text = IsoDateText
    /\ event.doc_id # None
    /\ DocById(Val(event.doc_id)).start_date = Some(DayOf(2024, 1, 20))
    /\ DocById(Val(event.doc_id)).end_date = Some(DayOf(2024, 1, 20))
    /\ DocById(Val(event.doc_id)).start_date = ParseManualDate(SlashDateText)

\* ---- one upload from file to saved document (FlowSpec)

\* C13: from no conversation and no templates, a valid file, a name of 2..100
\* characters, start|today and end|+1y (the store accepting the insert) leave
\* exactly one document of the user, with the typed name, the start date
\* today, the end date today + 365 days and no template; the conversation is
\* ended and the draft is gone.
C13_UploadEndToEnd ==
    LET u == event.user
        mine == {d \in documents : d.user_id = u}
    IN  (/\ event.handler = "upload_end_date_callback"
         /\ event.update.data = <<"end", "+1y">>
         /\ event.was = WAITING_END_DATE
         /\ ~event.raised)
        => /\ event.doc_id # None
           /\ Cardinality(mine) = 1
           /\ \A d \in mine :
                  /\ d.id = Val(event.doc_id)
                  /\ d.name = Strip(DateText)
                  /\ Len(d.name) \in 2..100
                  /\ d.file_id \in {PdfFile.file_id, Photo.file_id}
                  /\ d.start_date = Some(event.day)
                  /\ d.end_date = Some(event.day + 365)
                  /\ d.template_id = None
           /\ conv[u] = END
           /\ ~HasUpload(u)

C13_Witness ==
    /\ event.handler = "upload_end_date_callback"
    /\ event.update.data = <<"end", "+1y">>
    /\ event.day = 1
    /\ event.doc_id # None
    /\ DocById(Val(event.doc_id)).start_date = Some(1)
    /\ DocById(Val(event.doc_id)).end_date = Some(366)
    /\ DocById(Val(event.doc_id)).name = DateText
    /\ conv[event.user] = END

\* ------------------------------- properties of the buttons (BrowseSpec)
\* The token of the update a step handled carries a numeric id as its third
\* and last segment.
IdToken(upd) == upd.kind = "callback" /\ Len(upd.data) = 3 /\ IntOf(upd.data[3]) # None

RecordsUnchanged ==
    /\ documents' = documents
    /\ templates' = templates
    /\ reminders_sent' = reminders_sent

C16_DeleteStep ==
    LET upd == event'.update
        ns == upd.data[1]
        op == upd.data[2]
    IN  IdToken(upd) =>
          /\ (ns = "doc" /\ op = "delete") =>
                event'.handler = "delete_document_confirm" /\ RecordsUnchanged
          /\ (ns = "doc" /\ op = "delete_yes") => event'.handler = "delete_document_execute"
          /\ (ns = "tmpl" /\ op = "delete") =>
                event'.handler = "delete_template_confirm" /\ RecordsUnchanged
          /\ (ns = "tmpl" /\ op = "delete_yes") => event'.handler = "delete_template_execute"

\* C16: for every numeric id, doc|delete|<id> is handled by the confirm-delete
\* handler and doc|delete_yes|<id> by the execute-delete handler, never the
\* other way round, likewise for tmpl|delete and tmpl|delete_yes; and the
\* step that handles a confirm token removes and changes no document, no
\* template and no reminder record.
C16_DeleteTokensDoNotCross == [][C16_DeleteStep]_vars

\* The execute token of the caller's document was handled and the document
\* and its reminder records are gone, the other owner's are kept.
C16_Witness ==
    /\ event.handler = "delete_document_execute"
    /\ event.update.data = <<"doc", "delete_yes", "1">>
    /\ event.reply = "delete_success"
    /\ ~\E d \in documents : d.id = 1
    /\ <<1, 0>> \notin reminders_sent
    /\ \E d \in documents : d.id = 2

\* A token of the document or template keyboards with a missing segment or
\* with an empty or non-numeric id or page argument.
Malformed(upd) ==
    /\ upd.kind = "callback"
    /\ Len(upd.data) >= 2
    /\ upd.data[1] \in {"doc", "tmpl", "mydocs", "templates"}
    /\ upd.data # <<"tmpl", "create">>
    /\ \/ Len(upd.data) < 3
       \/ \E i \in 3..Len(upd.data) : IntOf(upd.data[i]) = None
       \/ upd.data[2] = "docs" /\ Len(upd.data) < 4

C19_MalformedStep ==
    Malformed(event'.update) =>
        /\ ~event'.raised
        /\ event'.acked
        /\ RecordsUnchanged
        /\ user_data' = user_data
        /\ conv' = conv

\* C19: a malformed action token (a missing segment, or an empty or
\* non-numeric id or page argument such as doc|view| or mydocs|list|x) is
\* treated as no match: the step that handles it raises no error, is
\* acknowledged, and leaves the records and the session as they were.
C19_MalformedTokenIsNoMatch == [][C19_MalformedStep]_vars

\* The handler that took a malformed token raised.
C19_Raises ==
    /\ Malformed(event.update)
    /\ event.handler = "view_document"
    /\ event.raised

\* ------------------------------------ properties of the paginators (PageSpec)
\* ceil(count / page_size): the least number of pages that hold count items.
CeilDiv(count, page_size) ==
    CHOOSE n \in 0..count : n * page_size >= count /\ (n = 0 \/ (n - 1) * page_size < count)

PageCountRight(p) ==
    p.total_pages # None =>
        /\ Val(p.total_pages) >= 1
        /\ p.count > 0 => Val(p.total_pages) = CeilDiv(p.count, p.page_size)

\* C20: for every item count >= 0 and page size >= 1, the page count a
\* pagination builder computes (build_pagination_keyboard,
\* build_templates_keyboard, mydocs_list, template_documents_list,
\* templates_list) is ceil(count / page_size) and is at least 1, also for a
\* list of zero items.
C20_TotalPagesAtLeastOne == PageCountRight(pager)

\* The same for every builder but build_pagination_keyboard.
C20_OtherBuildersRight ==
    pager.builder # "build_pagination_keyboard" => PageCountRight(pager)

\* A builder other than build_pagination_keyboard paginated an empty list.
C20_OtherBuildersWitness ==
    /\ pager.builder \in {"build_templates_keyboard", "template_documents_list"}
    /\ pager.count = 0
    /\ pager.total_pages = Some(1)

\* The page asked for is one of the pages the builder counted.
InRange(p) == p.total_pages # None /\ 0 <= p.page /\ p.page < Val(p.total_pages)

\* C21: for every in-range page, the page rendered holds exactly the items
\* items[page*pageSize : min((page+1)*pageSize, count)], a "previous" button
\* is emitted iff page > 0 and a "next" button iff page < totalPages - 1.
C21_PageSliceAndNavigation ==
    (pager.builder # "" /\ InRange(pager)) =>
        /\ pager.shown = {i \in 0..(pager.count - 1) :
                            /\ pager.page * pager.page_size <= i
                            /\ i < Min((pager.page + 1) * pager.page_size, pager.count)}
        /\ pager.prev <=> pager.page > 0
        /\ pager.next <=> pager.page < Val(pager.total_pages) - 1

\* 25 items in pages of 10: the last of 3 pages holds items 20..24, with a
\* "previous" button and no "next" button.
C21_Witness ==
    /\ pager.builder = "mydocs_list"
    /\ pager.count = 25 /\ pager.page_size = 10 /\ pager.page = 2
    /\ pager.total_pages = Some(3)
    /\ pager.shown = 20..24
    /\ pager.prev /\ ~pager.next

\* The record a token <<ns, op, id>> names exists and belongs to somebody
\* other than the caller u.
OwnedByOther(u, upd) ==
    /\ IdToken(upd)
    /\ upd.data[2] \in {"view", "download", "edit", "delete", "delete_yes"}
    /\ \/ /\ upd.data[1] = "doc"
          /\ \E d \in documents : d.id = Val(IntOf(upd.data[3])) /\ d.user_id # u
       \/ /\ upd.data[1] = "tmpl"
          /\ \E t \in templates : t.id = Val(IntOf(upd.data[3])) /\ t.user_id # u

C22_ForeignStep ==
    OwnedByOther(event'.user, event'.update) =>
        /\ event'.reply \in {"document_not_found", "delete_error",
                             "template_not_found", "error_generic"}
        /\ RecordsUnchanged

\* C22: a view, download, edit, delete-confirm or delete-execute token that
\* names a document or template owned by another user is answered with
\* not-found or failure, and the step leaves the documents, the templates
\* and the reminder ledger unchanged.
C22_NoActionOnForeignRecord == [][C22_ForeignStep]_vars

\* The caller asked to delete the other owner's document: refused, and the
\* document and its ledger row are still there.
C22_Witness ==
    /\ event.handler = "delete_document_execute"
    /\ event.update.data = <<"doc", "delete_yes", "2">>
    /\ event.reply = "delete_error"
    /\ \E d \in documents : d.id = 2 /\ d.user_id = OtherOwner
    /\ <<2, 0>> \in reminders_sent

\* ---- the order of a delete (BrowseSpec)
\* No reminder row of a store is of a document the store does not have.
NoOrphanRows(store) == \A r \in store[2] : \E d \in store[1] : d.id = r[1]

\* A step of delete_document_execute that called delete_document.
C28_DeleteCalled == txn' # txn \/ event'.reply \in {"delete_success", "delete_error"}

C28_DeleteStep ==
    C28_DeleteCalled =>
        LET id == Val(IntOf(event'.update.data[3]))
            owned == \E d \in documents : d.id = id /\ d.user_id = event'.user
        IN  /\ txn'[1] = <<documents, reminders_sent>>
            /\ txn'[Len(txn')] = <<documents', reminders_sent'>>
            /\ \A n \in 1..Len(txn') : NoOrphanRows(txn'[n])
            /\ owned =>
                  /\ event'.reply = "delete_success"
                  /\ Len(txn') = 3
                  /\ txn'[2][1] = documents
                  /\ ~\E r \in txn'[2][2] : r[1] = id
                  /\ ~\E d \in documents' : d.id = id
                  /\ ~\E r \in reminders_sent' : r[1] = id
            /\ ~owned =>
                  /\ event'.reply = "delete_error"
                  /\ Len(txn') = 1
                  /\ documents' = documents /\ reminders_sent' = reminders_sent

\* C28: a successful delete removes the document's reminder rows first and
\* the document row second: the store after the first statement still has the
\* document and has none of its reminder rows, the store after the second has
\* neither, and no store on the way has a reminder row of a document that is
\* gone. A delete whose ownership check finds no row changes neither table.
C28_DependentsBeforeParent == [][C28_DeleteStep]_vars

\* C28 witness: the caller's document was deleted in three stores (checked,
\* rows removed, document removed), and the other owner's document and its
\* reminder row are in all of them.
C28_Witness ==
    /\ event.reply = "delete_success"
    /\ Len(txn) = 3
    /\ <<1, 0>> \in txn[1][2] /\ <<1, 0>> \notin txn[2][2]
    /\ (\E d \in txn[2][1] : d.id = 1) /\ ~(\E d \in txn[3][1] : d.id = 1)
    /\ \A n \in 1..3 : <<2, 0>> \in txn[n][2] /\ \E d \in txn[n][1] : d.id = 2

\* C28 witness of the refused delete: the ownership check found no row and
\* the only store of the call is the store as it was.
C28_RefusedWitness ==
    /\ event.reply = "delete_error"
    /\ txn = <<<<documents, reminders_sent>>>>
    /\ \E d \in documents : d.id = Val(IntOf(event.update.data[3]))

\* ---- pages out of range (BrowseSpec)
\* The last update was a page of the caller's documents, or of the documents
\* of one of the caller's templates that has documents.
C29_PageRendered ==
    /\ event.handler \in {"mydocs_list", "template_documents_list"}
    /\ event.reply \in {"mydocs_page", "template_documents_page"}
    /\ pager.builder = event.handler
    /\ pager.count >= 1

\* C29: for a user who owns at least one document, a handled mydocs|list|<page>
\* (or tmpl|docs|<id>|<page> of a template that has documents) never renders
\* a page with no item on it, whatever the page of the token.
C29_NoEmptyItemPage == C29_PageRendered => pager.shown # {}

\* The caller has one document and the token asks for the second page (the
\* "more" button of a list that has since shrunk): the page has no item, a
\* "previous" button, and no page label.
C29_EmptyPageRendered ==
    /\ event.handler = "mydocs_list"
    /\ event.update.data = <<"mydocs", "list", "1">>
    /\ get_documents_count(event.user) = 1
    /\ pager.page = 1 /\ pager.total_pages = Some(1)
    /\ pager.shown = {} /\ pager.prev /\ ~pager.next

\* The page before the first is empty as well.
C29_NegativePageRendered ==
    /\ C29_PageRendered
    /\ pager.page = -1
    /\ pager.shown = {}

\* ---- whom a run notifies (SchedSpec)
\* What the query of a run has to find for a threshold: the document exists,
\* has an end date, and its end date minus today is the threshold.
DueToday(p) ==
    \E d \in documents :
        /\ d.id = p[1]
        /\ d.end_date # None
        /\ Val(d.end_date) - today = p[2]

\* The steps of a run that lead to a notification: the query of a threshold,
\* the start of the delivery after the ledger check, and the delivery.
C27_QueryStep(j) ==
    \A p \in job'[j].matched \ job[j].matched : job[j].pc = "fetch" /\ DueToday(p)
C27_AttemptStep(j) ==
    (job'[j].pc = "send" /\ job'[j] # job[j]) =>
        /\ job[j].pc = "check"
        /\ CurPair(job'[j]) = CurPair(job[j])
        /\ CurPair(job[j]) \in job[j].matched
        /\ CurPair(job[j]) \notin reminders_sent
C27_DeliveryStep(j) ==
    /\ \A p \in job'[j].attempted \ job[j].attempted :
           job[j].pc = "send" /\ p = CurPair(job[j])
    /\ \A a \in job'[j].addressed \ job[j].addressed :
           /\ job[j].pc = "send" /\ a[1] = CurPair(job[j])[1]
           /\ \E d \in documents : d.id = a[1] /\ d.user_id = a[2]
    /\ \A p \in job'[j].attempted : \E a \in job'[j].addressed : a[1] = p[1]

\* C27: a run attempts a notification for (document, threshold) only for a
\* pair its query of that threshold found, and the query finds only documents
\* with an end date whose end date minus today is the threshold exactly; the
\* delivery is started only when the ledger has no record of the pair, and it
\* is addressed to the document's owner. So a document without an end date is
\* never notified.
C27_OnlyDueUnrecordedToOwner ==
    [][\A j \in Jobs : C27_QueryStep(j) /\ C27_AttemptStep(j) /\ C27_DeliveryStep(j)]_vars

\* C27 witness: a run has ended that notified the owner of document 2, user 2,
\* while document 1 has no end date and was notified by no run.
C27_Witness ==
    \E j \in Jobs :
        /\ job[j].pc = "done"
        /\ job[j].addressed = {<<2, 2>>}
        /\ \E p \in job[j].attempted : p[1] = 2 /\ deliveries[p] = 1
        /\ \E d \in documents : d.id = 1 /\ d.end_date = None
        /\ \A t \in Thresholds : deliveries[<<1, t>>] = 0 /\ <<1, t>> \notin failed_pairs

\* ---- the reminder ledger (SchedSpec)
\* No key was inserted as a row by two runs, and every row inserted is a key
\* of the ledger.
LedgerKeysUnique ==
    /\ \A j \in Jobs : job[j].inserted \subseteq reminders_sent
    /\ \A j1, j2 \in Jobs : j1 # j2 => job[j1].inserted \cap job[j2].inserted = {}

\* Job j executed mark_reminder_sent, with no store failure, for a pair that
\* was already recorded.
MarksRecordedPair(j) ==
    /\ job[j].pc = "mark"
    /\ job'[j] # job[j]
    /\ restarts' = restarts
    /\ faults' = faults
    /\ is_reminder_sent(job[j].docs[job[j].k], CurDays(job[j]))

C26_LedgerStep ==
    /\ LedgerKeysUnique'
    /\ \A j \in Jobs :
         MarksRecordedPair(j) =>
            /\ reminders_sent' = reminders_sent
            /\ job'[j].inserted = job[j].inserted
            /\ job'[j].errors = job[j].errors
            /\ job'[j].pc # "raised"

\* C26: the reminder ledger never holds two records with the same
\* (document, threshold) key, and marking a pair that is already recorded
\* writes no row, raises no error and leaves the ledger unchanged, also when
\* two runs of the job insert the same key.
C26_LedgerWriteOnce == [][C26_LedgerStep]_vars

\* Two runs delivered the same pair; the first inserted its row, the second
\* marked it again and ended with no error and no row of its own.
C26_Witness ==
    \E j, o \in Jobs : \E q \in job[o].inserted :
        /\ j # o
        /\ job[j].pc = "done" /\ job[j].errors = 0
        /\ q \in PairsOf(job[j].sent)
        /\ q \notin job[j].inserted
        /\ q \in reminders_sent

\* ------------------------------- more properties of the conversation (ConvSpec)
\* C23: the draft is destroyed on completion, cancellation and reset: in
\* every reachable state a user who is in no conversation has no upload
\* draft, also after a file rejected for the limit or by validation arrived
\* while a draft was in progress.
C23_NoDraftOutsideConversation ==
    \A u \in Users : conv[u] = END => ~HasUpload(u)

\* A rejected file ended the conversation and the draft of the file before it
\* is still in user_data.
C23_DraftSurvivesRejection ==
    /\ event.handler = "upload_start"
    /\ event.was # END
    /\ event.reply \notin {"upload_start", ""}
    /\ conv[event.user] = END
    /\ HasUpload(event.user)

\* The step handled a text of user u who was waiting for the name.
NameStep(u) ==
    /\ event'.user = u
    /\ event'.update.kind = "text"
    /\ conv[u] = WAITING_NAME

NameOutcome(u) ==
    LET name == Strip(event'.update.text)
    IN  /\ Len(name) < 2 => conv'[u] = WAITING_NAME /\ user_data'[u] = user_data[u]
        /\ (2 <= Len(name) /\ Len(name) <= 100) =>
              /\ conv'[u] = WAITING_START_DATE
              /\ user_data'[u].upload # None
              /\ Val(user_data'[u].upload).name = Some(name)

\* C25: in WAITING_NAME, a text whose trimmed length is below 2 leaves the
\* state WAITING_NAME and the draft unchanged; a text of trimmed length 2 to
\* 100 is stored as the draft's name and the state becomes WAITING_START_DATE.
C25_NameLength == [][\A u \in Users : NameStep(u) => NameOutcome(u)]_vars

\* The same for the steps that start with a draft in user_data.
C25_NameLengthWithDraft ==
    [][\A u \in Users : (NameStep(u) /\ HasUpload(u)) => NameOutcome(u)]_vars

\* A name arrived in WAITING_NAME when user_data held no draft, and the
\* handler raised.
C25_NameWithoutDraft ==
    /\ event.handler = "upload_name"
    /\ event.was = WAITING_NAME
    /\ event.raised
    /\ conv[event.user] = WAITING_NAME

\* ------------------------------------- properties of two users (PairSpec)
C24_IsolationStep ==
    LET a == event'.user
    IN  /\ \A b \in PairUsers \ {a} : conv'[b] = conv[b] /\ user_data'[b] = user_data[b]
        /\ \A d \in documents' \ documents :
              /\ d.user_id = a
              /\ HasUpload(a)
              /\ d.file_id = Val(Upload(a)).file_id
              /\ d.file_name = Val(Upload(a)).file_name
              /\ d.file_type = Val(Upload(a)).file_type
              /\ Some(d.name) = Val(Upload(a)).name
              /\ d.start_date = Val(Upload(a)).start_date

\* C24: handling an update of user A (a file, a text, a button or a command)
\* leaves the draft and the conversation state of every other user as they
\* were, and a document stored by the step belongs to A and has the file,
\* the name and the start date of A's draft.
C24_SessionIsolation == [][C24_IsolationStep]_vars

\* User 2 stored a document while user 1 was in a conversation with a draft
\* of another file.
C24_Witness ==
    /\ event.user = 2
    /\ event.doc_id # None
    /\ conv[1] # END
    /\ HasUpload(1)
    /\ \E d \in documents : d.id = Val(event.doc_id) /\ d.user_id = 2
                            /\ d.file_id # Val(Upload(1)).file_id

\* ---- a second file (ConvSpec)
\* The name upload_start gives the file of an update, and whether
\* validate_file accepts it.
C30_FileName(f) ==
    IF f.kind = "document" THEN f.file_name ELSE Some(<<"photo_", ".jpg">>)
C30_ValidFile(upd) ==
    /\ upd.kind = "file"
    /\ C30_FileName(upd.file) # None
    /\ Val(C30_FileName(upd.file))[2] \in ALLOWED_EXTENSIONS
    /\ upd.file.file_size <= MAX_FILE_SIZE

\* The step that handles a valid file of a user in an awaiting state.
C30_SecondFileStep ==
    \A u \in Users :
        (/\ event' # event
         /\ event'.user = u
         /\ conv[u] \in UploadStates
         /\ C30_ValidFile(event'.update)) =>
            LET f == event'.update.file
                d == Val(user_data'[u].upload)
            IN  /\ event'.handler = "upload_start"
                /\ ~event'.raised
                /\ event'.reply = "upload_start"
                /\ conv'[u] = WAITING_NAME
                /\ user_data'[u].upload # None
                /\ d.file_id = f.file_id
                /\ d.file_name = C30_FileName(f)
                /\ d.file_type = get_file_type(C30_FileName(f))
                /\ d.name = None /\ d.start_date = None /\ d.end_date = None
                /\ d.template_id = None
                /\ ~d.waiting_manual_start /\ ~d.waiting_manual_end
                /\ DOMAIN d = {"file_id", "file_name", "file_type", "name", "start_date",
                               "end_date", "template_id", "waiting_manual_start",
                               "waiting_manual_end"}
                /\ documents' = documents

HandledIn(u, state) == event' # event /\ event'.user = u /\ conv[u] = state

\* The draft's flag `flag` is set for u.
FlagSet(ud, flag) == ud.upload # None /\ Val(ud.upload)[flag]

\* What a free text does in the state that awaits the date `field`.
C31_TextOutcome(u, state, field, flag) ==
    (HandledIn(u, state) /\ event'.update.kind = "text" /\ faults' = faults) =>
        LET parsed == ParseManualDate(Strip(event'.update.text))
        IN  IF ~FlagSet(user_data[u], flag) \/ parsed = None
            THEN conv'[u] = state /\ user_data'[u] = user_data[u]
            ELSE /\ conv'[u] # state
                 /\ ~FlagSet(user_data'[u], flag)
                 /\ \/ /\ user_data'[u].upload # None
                       /\ Val(user_data'[u].upload)[field] = parsed
                    \/ \E d \in documents' \ documents : d.user_id = u /\ d[field] = parsed

\* What the manual token does in its state.
C31_TokenOutcome(u, state, ns, flag) ==
    (HandledIn(u, state) /\ event'.update.kind = "callback"
        /\ event'.update.data = <<ns, "manual">>) =>
        /\ conv'[u] = state
        /\ FlagSet(user_data'[u], flag)
        /\ user_data[u].upload # None
        /\ user_data'[u] =
              [user_data[u] EXCEPT !.upload = Some([Val(@) EXCEPT ![flag] = TRUE])]

C31_FlagStep(u) ==
    /\ C31_TextOutcome(u, WAITING_START_DATE, "start_date", "waiting_manual_start")
    /\ C31_TextOutcome(u, WAITING_END_DATE, "end_date", "waiting_manual_end")
    /\ C31_TokenOutcome(u, WAITING_START_DATE, "start", "waiting_manual_start")
    /\ C31_TokenOutcome(u, WAITING_END_DATE, "end", "waiting_manual_end")

\* C31: in WAITING_START_DATE (WAITING_END_DATE) a free text is taken as a
\* date only when the draft's waiting_manual_start (waiting_manual_end) flag
\* is set; with the flag unset, or when the text does not parse, the state and
\* the user's data stay as they were; the start|manual (end|manual) token
\* keeps the state and sets the flag and nothing else; a text that parses
\* under the flag stores the date, clears the flag and leaves the state.
C31_ManualFlagGatesText == [][\A u \in Users : C31_FlagStep(u)]_vars

\* The same for the steps of a user whose data holds a draft.
C31_ManualFlagWithDraft == [][\A u \in Users : HasUpload(u) => C31_FlagStep(u)]_vars

\* The manual token was handled in WAITING_START_DATE for a user whose data
\* held no draft: the prompt for the date was sent, the handler raised, and no
\* flag is set, so the date the user types next is dropped without a reply.
C31_PromptWithoutFlag ==
    /\ event.handler = "upload_start_date_callback"
    /\ event.update.data = <<"start", "manual">>
    /\ event.was = WAITING_START_DATE
    /\ event.raised
    /\ conv[event.user] = WAITING_START_DATE
    /\ ~FlagSet(user_data[event.user], "waiting_manual_start")

\* A date typed under the flag was stored as the start date and the flag is
\* cleared.
C31_ParsedUnderFlag ==
    /\ event.handler = "upload_start_date_manual"
    /\ event.reply = "upload_select_end_date"
    /\ conv[event.user] = WAITING_END_DATE
    /\ HasUpload(event.user)
    /\ Val(Upload(event.user)).start_date # None
    /\ ~Val(Upload(event.user)).waiting_manual_start

\* ---- the buttons of a reply (BrowseSpec, ConvSpec)
\* str(n) as a token segment; "n" stands for the numbers that are not among
\* the model's segments (no pattern looks at the digits).
Seg(n) ==
    CASE n = 0 -> "0" [] n = 1 -> "1" [] n = 2 -> "2" [] n = 9 -> "9" [] n = -1 -> "-1"
      [] OTHER -> "n"

\* build_date_keyboard(callback_prefix, include_today, include_skip)
build_date_keyboard(callback_prefix, include_today, include_skip) ==
    {<<callback_prefix, o>> : o \in {"+1m", "+3m", "+6m", "+1y", "+2y", "+5y", "manual"}}
        \cup (IF include_today THEN {<<callback_prefix, "today">>} ELSE {})
        \cup (IF include_skip THEN {<<callback_prefix, "skip">>} ELSE {})

\* build_confirmation_keyboard(confirm_callback, cancel_callback)
build_confirmation_keyboard(confirm_callback, cancel_callback) ==
    {confirm_callback, cancel_callback}

\* build_document_actions_keyboard(doc_id), include_back=True
build_document_actions_keyboard(doc_id) ==
    {<<"doc", "download", Seg(doc_id)>>, <<"doc", "edit", Seg(doc_id)>>,
     <<"doc", "delete", Seg(doc_id)>>, <<"mydocs", "list", "0">>}

\* build_edit_document_keyboard(doc_id)
build_edit_document_keyboard(doc_id) ==
    {<<"edit", "name", Seg(doc_id)>>, <<"edit", "dates", Seg(doc_id)>>,
     <<"edit", "template", Seg(doc_id)>>, <<"doc", "view", Seg(doc_id)>>}

\* The buttons of build_templates_keyboard(templates, page, 8, select_mode)
\* for the templates of user u (in the model they fit on one page).
TemplatesKeyboard(u, page, select_mode) ==
    LET mine == get_user_templates(u)
        total_pages == TemplatesTotalPages(Cardinality(mine), 8)
        prefix == IF select_mode THEN <<"upload", "tmplpage">> ELSE <<"templates", "page">>
    IN  {IF select_mode THEN <<"upload", "template", Seg(t.id)>>
         ELSE <<"tmpl", "view", Seg(t.id)>> : t \in {x \in mine : page = 0}}
        \cup (IF total_pages > 1 THEN {<<"noop">>} ELSE {})
        \cup (IF total_pages > 1 /\ HasPrev(page) THEN {prefix \o <<Seg(page - 1)>>} ELSE {})
        \cup (IF total_pages > 1 /\ HasNext(page, total_pages)
              THEN {prefix \o <<Seg(page + 1)>>} ELSE {})
        \cup (IF select_mode THEN {<<"upload", "template", "skip">>}
              ELSE {<<"tmpl", "create">>})

\* The item buttons of a list of documents: one doc|view|<id> per row.
ItemButtons(rows) == {<<"doc", "view", Seg(d.id)>> : d \in rows}

\* The navigation row of mydocs_list and template_documents_list, as the
\* rendered page (pager) has it.
NavButtons(prefix) ==
    (IF pager.prev THEN {prefix \o <<Seg(pager.page - 1)>>} ELSE {})
        \cup (IF pager.next THEN {prefix \o <<Seg(pager.page + 1)>>} ELSE {})
        \cup (IF Val(pager.total_pages) > 1 THEN {<<"noop">>} ELSE {})

\* The action tokens on the buttons of the message the last handled update
\* was answered with (reply_markup), by handler and reply.
Keyboard ==
    LET u == event.user
        h == event.handler
        r == event.reply
        arg == Val(IntOf(event.update.data[3]))
        mine == {d \in documents : d.user_id = u}
        filed == {d \in mine : d.template_id = Some(arg)}
    IN  CASE r = "document_info" -> build_document_actions_keyboard(arg)
          [] r = "delete_confirm" ->
                 build_confirmation_keyboard(<<"doc", "delete_yes", Seg(arg)>>,
                                             <<"doc", "view", Seg(arg)>>)
          [] r = "delete_success" -> {<<"mydocs", "list", "0">>}
          [] r = "edit_menu" -> build_edit_document_keyboard(arg)
          [] r = "mydocs_page" ->
                 (IF pager.shown = {} THEN {} ELSE ItemButtons(mine))
                     \cup NavButtons(<<"mydocs", "list">>)
          [] r = "mydocs" ->
                 ItemButtons(mine)
                     \cup (IF Cardinality(mine) > 10 THEN {<<"mydocs", "list", "1">>} ELSE {})
                     \cup {<<"mydocs", "bytemplates">>, <<"mydocs", "search">>}
          [] r = "template_info" ->
                 ItemButtons(filed)
                     \cup (IF Cardinality(filed) > 5
                           THEN {<<"tmpl", "docs", Seg(arg), "0">>} ELSE {})
                     \cup {<<"tmpl", "delete", Seg(arg)>>, <<"templates", "list", "0">>}
          [] r = "template_documents_page" ->
                 (IF pager.shown = {} THEN {} ELSE ItemButtons(filed))
                     \cup NavButtons(<<"tmpl", "docs", Seg(arg)>>)
                     \cup {<<"tmpl", "view", Seg(arg)>>}
          [] r = "delete_template_confirm" ->
                 build_confirmation_keyboard(<<"tmpl", "delete_yes", Seg(arg)>>,
                                             <<"tmpl", "view", Seg(arg)>>)
          [] r \in {"template_deleted", "template_create_prompt", "template_created"} ->
                 {<<"templates", "list", "0">>}
          [] r = "no_templates" -> {<<"tmpl", "create">>}
          [] r = "templates" -> TemplatesKeyboard(u, 0, FALSE)
          [] r = "templates_page" ->
                 TemplatesKeyboard(u, IF Len(event.update.data) > 2 THEN arg ELSE 0, FALSE)
          [] r = "upload_select_start_date" -> build_date_keyboard("start", TRUE, FALSE)
          [] r = "upload_select_end_date" -> build_date_keyboard("end", FALSE, TRUE)
          [] r = "upload_select_template" -> TemplatesKeyboard(u, 0, TRUE)
          [] r = "upload_success" /\ event.update.kind = "callback" ->
                 {<<"doc", "view", Seg(Val(event.doc_id))>>, <<"mydocs", "list", "0">>}
          [] OTHER -> {}

\* The handler the user's press of button t would reach now.
Routed(t) == Dispatch(event.user, CallbackUpdate(t))

\* C32: every token on a button of the last reply is matched by a registered
\* handler in the state the user is in while the button is shown, and every
\* page-indicator button ("noop") reaches noop_callback.
C32_EveryButtonIsHandled ==
    \A t \in Keyboard :
        /\ Routed(t) # "none"
        /\ t = <<"noop">> => Routed(t) = "noop_callback"

\* The buttons that no registered pattern matches: the three of the edit
\* menu and the two filters of /mydocs.
DeadTokens ==
    {t \in Keyboard : t[1] = "edit" \/ t \in {<<"mydocs", "bytemplates">>, <<"mydocs", "search">>}}

\* Every other button of the last reply is handled.
C32_OtherButtonsHandled ==
    \A t \in Keyboard \ DeadTokens :
        /\ Routed(t) # "none"
        /\ t = <<"noop">> => Routed(t) = "noop_callback"

\* The edit menu of the caller's document is on screen, and none of its
\* three edit buttons reaches a handler.
C32_EditMenuIsDead ==
    /\ event.handler = "edit_document_menu"
    /\ event.reply = "edit_menu"
    /\ \A f \in {"name", "dates", "template"} :
          /\ <<"edit", f, "1">> \in Keyboard
          /\ Routed(<<"edit", f, "1">>) = "none"
    /\ Routed(<<"doc", "view", "1">>) = "view_document"

\* /mydocs listed the user's documents, and neither filter button reaches a
\* handler.
C32_FiltersAreDead ==
    /\ event.handler = "cmd_mydocs"
    /\ event.reply = "mydocs"
    /\ {<<"mydocs", "bytemplates">>, <<"mydocs", "search">>} \subseteq Keyboard
    /\ Routed(<<"mydocs", "bytemplates">>) = "none"
    /\ Routed(<<"mydocs", "search">>) = "none"


\* --------------------------- the draft of an awaiting user (ConvSpec)
\* C33: in every reachable state a user whose conversation state is
\* WAITING_NAME, WAITING_START_DATE, WAITING_END_DATE or WAITING_TEMPLATE has
\* an upload draft in user_data and the draft holds a file reference, also
\* after /cancel or another command was handled in the middle of the
\* conversation.
C33_AwaitingHasDraft ==
    \A u \in Users :
        conv[u] \in UploadStates
        => (HasUpload(u) /\ Val(Upload(u)).file_id # "")

\* Every awaiting state is left without a draft by cmd_cancel: the command
\* handler cleared user_data and the conversation kept its state.
C33_CancelLeavesAwaitingWithoutDraft ==
    /\ event.handler = "cmd_cancel"
    /\ event.was \in UploadStates
    /\ conv[event.user] = event.was
    /\ ~HasUpload(event.user)

\* A button of the conversation was then taken by a conversation handler
\* whose read of the draft raised.
C33_HandlerFailsOnMissingDraft ==
    /\ event.update.kind = "callback"
    /\ event.was \in UploadStates \ {WAITING_NAME}
    /\ event.raised
    /\ ~HasUpload(event.user)
    /\ conv[event.user] = event.was


\* ------------------------- saving with templates in the store (SaveSpec)
\* save_document_from_callback when the Bot API call that reports the save
\* raises: insert_document has committed the row, `await
\* query.edit_message_text(...)` raises a TelegramError, and the handler ends
\* before context.user_data.pop("upload") and before it returns END, so the
\* draft and the conversation state stay.
SaveDocument_ReplyFailed(u, upd, h, ud, acked) ==
    /\ documents' = documents \cup {DocumentRow(u, Val(ud.upload))}
    /\ next_doc_id' = next_doc_id + 1
    /\ faults' = faults + 1
    /\ Raised(u, upd, h, ud, acked)

\* upload_start when `await message.reply_text(MESSAGES["upload_start"])`
\* raises: the new draft is already in user_data, and the conversation
\* stays in the state it was in when the file arrived.
upload_start_reply_failed(u, upd) ==
    /\ Dispatch(u, upd) = "upload_start"
    /\ faults < MaxFaults
    /\ LET f == upd.file
           file_name == IF f.kind = "document" THEN f.file_name
                        ELSE Some(<<"photo_" , ".jpg">>)
       IN  /\ ~LimitReached(get_documents_count(u))
           /\ validate_file(file_name, f.file_size)
           /\ Raised(u, upd, "upload_start",
                     [user_data[u] EXCEPT !.upload = Some(NewDraft(f.file_id, file_name))],
                     FALSE)
    /\ users' = users \cup {u}
    /\ faults' = faults + 1
    /\ UNCHANGED <<documents, next_doc_id, templates, next_tmpl_id, offered, schedRest>>

\* upload_template_callback whose save is stored and whose reply raises.
upload_template_callback_reply_failed(u, upd) ==
    /\ Dispatch(u, upd) = "upload_template_callback"
    /\ faults < MaxFaults
    /\ Len(upd.data) >= 3
    /\ HasUpload(u)
    /\ LET tid == IF upd.data[3] = "skip" THEN None ELSE IntOf(upd.data[3])
           ud == [user_data[u] EXCEPT !.upload = Some([Val(@) EXCEPT !.template_id = tid])]
       IN  SaveDocument_ReplyFailed(u, upd, "upload_template_callback", ud, TRUE)
    /\ UNCHANGED <<users, templates, next_tmpl_id, offered, schedRest>>

\* upload_end_date_callback of a user without templates, whose save is
\* stored and whose reply raises.
upload_end_date_callback_reply_failed(u, upd) ==
    /\ Dispatch(u, upd) = "upload_end_date_callback"
    /\ faults < MaxFaults
    /\ Len(upd.data) >= 2
    /\ HasUpload(u)
    /\ get_user_templates(u) = {}
    /\ LET selected == IF upd.data[2] = "skip" THEN None ELSE QuickDate(upd.data[2], today)
           ud == [user_data[u] EXCEPT !.upload = Some([Val(@) EXCEPT !.end_date = selected])]
       IN  /\ upd.data[2] = "skip" \/ selected # None
           /\ SaveDocument_ReplyFailed(u, upd, "upload_end_date_callback", ud, TRUE)
    /\ UNCHANGED <<users, templates, next_tmpl_id, offered, schedRest>>

\* The buttons pressed in SaveSpec: the template keyboard of the upload
\* (the caller's template 1, the other owner's template 2, skip), the end
\* date keyboard, and the confirmed deletion of the caller's template.
SaveTemplateTokens ==
    {<<"upload", "template", "1">>, <<"upload", "template", "2">>,
     <<"upload", "template", "skip">>}

SaveEndTokens == {<<"end", "skip">>, <<"end", "+1y">>}

SaveStartTokens == {<<"start", "today">>, <<"start", "manual">>}

\* A name of 101 characters, one more than upload_name keeps.
LongText == [n \in 1..101 |-> "x"]

\* The caller owns template 1, another owner owns template 2, and no
\* document is stored.
SaveInit ==
    /\ today = 0
    /\ users = {1, OtherOwner}
    /\ documents = {}
    /\ templates = {[user_id |-> 1, id |-> 1, name |-> ShortText],
                    [user_id |-> OtherOwner, id |-> 2, name |-> ShortText]}
    /\ reminders_sent = {}
    /\ job = [j \in Jobs |-> IdleJob]
    /\ initial_pending = TRUE
    /\ daily_fired = FALSE
    /\ restarts = 0
    /\ deliveries = [p \in AllPairs |-> 0]
    /\ failed_pairs = {}
    /\ faults = 0
    /\ last_clean_day = None
    /\ next_doc_id = 1
    /\ next_tmpl_id = 3
    /\ conv = [u \in Users |-> END]
    /\ user_data = [u \in Users |-> EmptyUserData]
    /\ offered = "today"
    /\ event = NoEvent
    /\ pager = NoPager
    /\ txn = <<>>

SaveNext ==
    \/ \E u \in Users, f \in {PdfFile, ExeFile} : upload_start(u, FileUpdate(f))
    \/ \E u \in Users : upload_start_reply_failed(u, FileUpdate(PdfFile))
    \/ \E u \in Users, t \in Texts \cup {LongText} : upload_name(u, TextUpdate(t))
    \/ \E u \in Users, d \in SaveStartTokens :
           upload_start_date_callback(u, CallbackUpdate(d))
    \/ \E u \in Users, t \in Texts : upload_start_date_manual(u, TextUpdate(t))
    \/ \E u \in Users, d \in SaveEndTokens :
           upload_end_date_callback(u, CallbackUpdate(d))
    \/ \E u \in Users, d \in SaveEndTokens :
           upload_end_date_callback_reply_failed(u, CallbackUpdate(d))
    \/ \E u \in Users, d \in SaveTemplateTokens :
           upload_template_callback(u, CallbackUpdate(d))
    \/ \E u \in Users, d \in SaveTemplateTokens :
           upload_template_callback_reply_failed(u, CallbackUpdate(d))
    \/ \E u \in Users :
           delete_template_execute(u, CallbackUpdate(<<"tmpl", "delete_yes", "1">>))
    \/ \E u \in Users : cmd_cancel(u, CommandUpdate("cancel"))
    \/ \E u \in Users : upload_cancel(u, CommandUpdate("foo"))
    \/ \E u \in Users, t \in Texts : create_template_name(u, TextUpdate(t))
    \/ \E u \in Users, d \in SaveTemplateTokens \cup SaveEndTokens \cup SaveStartTokens :
           Unhandled(u, CallbackUpdate(d))

SaveSpec == SaveInit /\ [][SaveNext]_vars


\* C34: in every reachable state every owner has at most
\* MAX_DOCUMENTS_PER_USER stored documents, although the limit is read only
\* when the file arrives and not again when the draft is stored.
C34_CountWithinLimit ==
    \A u \in Users : get_documents_count(u) <= MAX_DOCUMENTS_PER_USER

\* The button of the template keyboard was pressed again after a save whose
\* reply raised, and the owner now has more rows than the limit.
C34_PressedAgainOverLimit ==
    /\ event.handler = "upload_template_callback"
    /\ event.was = WAITING_TEMPLATE
    /\ ~event.raised
    /\ event.reply = "upload_success"
    /\ get_documents_count(event.user) > MAX_DOCUMENTS_PER_USER


\* C35: in every reachable state the template id of every stored document is
\* null or the id of a stored template of the document's owner, also when
\* the template is deleted while the upload waits in WAITING_TEMPLATE and
\* when the upload|template|<id> button names a template of another owner.
C35_TemplateOfSameOwner ==
    \A d \in documents :
        d.template_id = None
        \/ \E t \in templates : t.id = Val(d.template_id) /\ t.user_id = d.user_id

\* The document just saved is filed under the template of another owner.
C35_ForeignTemplateLinked ==
    /\ event.handler = "upload_template_callback"
    /\ event.update.data = <<"upload", "template", "2">>
    /\ event.reply = "upload_success"
    /\ \E d \in documents, t \in templates :
          /\ Some(d.id) = event.doc_id
          /\ d.template_id = Some(t.id)
          /\ t.user_id # d.user_id

\* The document just saved is filed under a template that was deleted while
\* the upload waited for the template button.
C35_DeletedTemplateLinked ==
    /\ event.handler = "upload_template_callback"
    /\ event.update.data = <<"upload", "template", "1">>
    /\ event.reply = "upload_success"
    /\ \E d \in documents :
          /\ Some(d.id) = event.doc_id
          /\ d.template_id = Some(1)
          /\ \A t \in templates : t.id # 1


\* --------------------- the reminder job and a deletion (RaceSpec)
\* Two documents of user 1 that expire today or tomorrow.
RaceDocument(id, end) == [SchedDocument(id, end) EXCEPT !.user_id = 1]

RaceInit ==
    /\ today = 0
    /\ users = {1}
    /\ \E ends \in [SchedDocIds -> {Some(0), Some(1)}] :
         documents = {RaceDocument(id, ends[id]) : id \in SchedDocIds}
    /\ reminders_sent = {}
    /\ job = [j \in Jobs |-> IdleJob]
    /\ initial_pending = TRUE
    /\ daily_fired = TRUE
    /\ restarts = 0
    /\ deliveries = [p \in AllPairs |-> 0]
    /\ failed_pairs = {}
    /\ faults = 0
    /\ last_clean_day = None
    /\ templates = {}
    /\ next_doc_id = NumDocs + 1
    /\ next_tmpl_id = 1
    /\ conv = [u \in Users |-> END]
    /\ user_data = [u \in Users |-> EmptyUserData]
    /\ offered = "today"
    /\ event = NoEvent
    /\ pager = NoPager
    /\ txn = <<>>

\* The steps of send_reminders, and delete_document_execute for an update
\* the event loop takes up while no job is inside a synchronous stretch,
\* that is, before a run or while a run awaits send_message.
RaceNext ==
    \/ \E j \in Jobs : JobFire(j) /\ UNCHANGED convVars
    \/ \E j \in Jobs : GetExpiringDocuments(j) /\ UNCHANGED convVars
    \/ \E j \in Jobs : IsReminderSent(j) /\ UNCHANGED convVars
    \/ \E j \in Jobs : SendMessage(j) /\ UNCHANGED convVars
    \/ \E j \in Jobs : MarkReminderSent(j) /\ UNCHANGED convVars
    \/ \E u \in Users, id \in SchedDocIds :
           /\ NoneBusy
           /\ delete_document_execute(u, CallbackUpdate(<<"doc", "delete_yes", Seg(id)>>))

RaceSpec == RaceInit /\ [][RaceNext]_vars

Stored(doc_id) == \E d \in documents : d.id = doc_id

\* C36: every row of the reminder ledger names a stored document, also when
\* the document is deleted between the job's scan and its ledger write; and
\* no step delivers a notification for a document that is not stored when
\* the step begins.
C36_NoLedgerOrDeliveryForDeleted ==
    [][/\ \A p \in reminders_sent' : Stored(p[1])'
       /\ \A p \in AllPairs : deliveries'[p] > deliveries[p] => Stored(p[1])]_vars

\* The ledger holds a row of a document that was deleted while the job
\* awaited the delivery of its notification.
C36_LedgerRowOfDeletedDocument ==
    \E j \in Jobs, p \in reminders_sent :
        /\ p \in job[j].inserted
        /\ ~Stored(p[1])
        /\ event.handler = "delete_document_execute"
        /\ event.reply = "delete_success"

\* The job delivered the notification of the second document of its scan
\* after that document had been deleted during the delivery of the first.
C36_DeliveredAfterDeletion ==
    \E j \in Jobs :
        /\ job[j].pc = "mark"
        /\ job[j].k = 2
        /\ ~Stored(job[j].docs[2])
        /\ Stored(job[j].docs[1])
        /\ deliveries[CurPair(job[j])] = 1


\* ------------------------ the registered callback patterns (SaveSpec)
\* r"^doc\|delete" in place of r"^doc\|delete\|(?!yes)": it also accepts the
\* tokens of the confirmed deletion.
DocDeletePattern_Loose(data) ==
    Len(data) >= 2 /\ data[1] = "doc" /\ data[2] \in {"delete", "delete_yes"}

\* r"^doc\|delete\|(?!yes)"
DocDeletePattern(data) == HasPrefix(data, <<"doc", "delete">>) /\ ~StartsWithYes(data[3])

\* Every CallbackQueryHandler that main() registers, by its pattern: the
\* handlers of the conversation's states, get_document_callback_handlers(),
\* get_template_handlers() and get_callback_dispatcher().
CallbackPatterns ==
    {"start|", "end|", "upload|template|",
     "doc|view|", "doc|download|", "doc|delete|(?!yes)", "doc|delete_yes|", "doc|edit|",
     "mydocs|list|",
     "tmpl|view|", "tmpl|docs|", "tmpl|delete|(?!yes)", "tmpl|delete_yes|",
     "templates|list|", "templates|page|", "tmpl|create$", "noop$"}

\* The callback of a pattern.
PatternHandler(pat) ==
    CASE pat = "start|" -> "upload_start_date_callback"
      [] pat = "end|" -> "upload_end_date_callback"
      [] pat = "upload|template|" -> "upload_template_callback"
      [] pat = "doc|view|" -> "view_document"
      [] pat = "doc|download|" -> "download_document"
      [] pat = "doc|delete|(?!yes)" -> "delete_document_confirm"
      [] pat = "doc|delete_yes|" -> "delete_document_execute"
      [] pat = "doc|edit|" -> "edit_document_menu"
      [] pat = "mydocs|list|" -> "mydocs_list"
      [] pat = "tmpl|view|" -> "view_template"
      [] pat = "tmpl|docs|" -> "template_documents_list"
      [] pat = "tmpl|delete|(?!yes)" -> "delete_template_confirm"
      [] pat = "tmpl|delete_yes|" -> "delete_template_execute"
      [] pat = "templates|list|" -> "templates_list"
      [] pat = "templates|page|" -> "templates_list"
      [] pat = "tmpl|create$" -> "create_template_start"
      [] pat = "noop$" -> "noop_callback"

\* CallbackQueryHandler.check_update of the handler with pattern `pat` for
\* the token `data` of a user in conversation state `state`: a handler of a
\* conversation state is tried only in that state.
PatternAccepts(pat, state, data) ==
    CASE pat = "start|" -> state = WAITING_START_DATE /\ HasPrefix(data, <<"start">>)
      [] pat = "end|" -> state = WAITING_END_DATE /\ HasPrefix(data, <<"end">>)
      [] pat = "upload|template|" ->
             state = WAITING_TEMPLATE /\ HasPrefix(data, <<"upload", "template">>)
      [] pat = "doc|view|" -> HasPrefix(data, <<"doc", "view">>)
      [] pat = "doc|download|" -> HasPrefix(data, <<"doc", "download">>)
      [] pat = "doc|delete|(?!yes)" -> DocDeletePattern(data)
      [] pat = "doc|delete_yes|" -> HasPrefix(data, <<"doc", "delete_yes">>)
      [] pat = "doc|edit|" -> HasPrefix(data, <<"doc", "edit">>)
      [] pat = "mydocs|list|" -> HasPrefix(data, <<"mydocs", "list">>)
      [] pat = "tmpl|view|" -> HasPrefix(data, <<"tmpl", "view">>)
      [] pat = "tmpl|docs|" -> HasPrefix(data, <<"tmpl", "docs">>)
      [] pat = "tmpl|delete|(?!yes)" ->
             HasPrefix(data, <<"tmpl", "delete">>) /\ ~StartsWithYes(data[3])
      [] pat = "tmpl|delete_yes|" -> HasPrefix(data, <<"tmpl", "delete_yes">>)
      [] pat = "templates|list|" -> HasPrefix(data, <<"templates", "list">>)
      [] pat = "templates|page|" -> HasPrefix(data, <<"templates", "page">>)
      [] pat = "tmpl|create$" -> data = <<"tmpl", "create">>
      [] pat = "noop$" -> data = <<"noop">>

Accepting(state, data) == {pat \in CallbackPatterns : PatternAccepts(pat, state, data)}

\* The tokens the specifications send, to which a state adds the buttons of
\* its last reply.
AllTokens ==
    Tokens \cup BrowseTokens \cup SaveTemplateTokens \cup SaveEndTokens \cup SaveStartTokens

\* C37: for every action token and every conversation state at most one
\* registered callback pattern accepts the token, and the handler that
\* Application.process_update runs is the callback of that pattern (none
\* when no pattern accepts), so the choice does not depend on the order in
\* which the callback handlers were registered.
C37_AtMostOnePatternAccepts ==
    \A u \in Users : \A d \in AllTokens \cup Keyboard :
        /\ Cardinality(Accepting(conv[u], d)) <= 1
        /\ \A pat \in Accepting(conv[u], d) :
              Dispatch(u, CallbackUpdate(d)) = PatternHandler(pat)
        /\ Accepting(conv[u], d) = {} => Dispatch(u, CallbackUpdate(d)) = "none"

\* A button of a document-independent handler was pressed in the middle of
\* a conversation, one pattern accepted it, and its callback ran.
C37_Witness ==
    /\ event.update.kind = "callback"
    /\ event.was = WAITING_TEMPLATE
    /\ Accepting(event.was, event.update.data) = {"tmpl|delete_yes|"}
    /\ event.handler = "delete_template_execute"


\* ------------------------------- tokens of another state (SaveSpec, ConvSpec)
\* The state in which the conversation has a handler for the token.
OwnState(data) ==
    CASE HasPrefix(data, <<"start">>) -> WAITING_START_DATE
      [] HasPrefix(data, <<"end">>) -> WAITING_END_DATE
      [] HasPrefix(data, <<"upload", "template">>) -> WAITING_TEMPLATE
      [] OTHER -> ""

\* The step took up a conversation token of user u outside the token's state.
StaleTokenStep(u) ==
    /\ event' # event
    /\ event'.user = u
    /\ event'.update.kind = "callback"
    /\ OwnState(event'.update.data) # ""
    /\ conv[u] # OwnState(event'.update.data)

\* C38: a start|... token outside WAITING_START_DATE, an end|... token
\* outside WAITING_END_DATE and an upload|template|... token outside
\* WAITING_TEMPLATE run no handler and leave the conversation state, the
\* user's data with the draft, and the store as they were.
C38_StaleTokenChangesNothing ==
    [][\A u \in Users :
          StaleTokenStep(u)
          => /\ event'.handler = "none"
             /\ conv' = conv
             /\ user_data' = user_data
             /\ documents' = documents
             /\ templates' = templates
             /\ reminders_sent' = reminders_sent
             /\ users' = users]_vars

\* A button of the start-date keyboard was pressed while the end date was
\* awaited, and the draft still holds the start date chosen before.
C38_Witness ==
    /\ event.handler = "none"
    /\ event.update.data = <<"start", "today">>
    /\ event.was = WAITING_END_DATE
    /\ conv[event.user] = WAITING_END_DATE
    /\ HasUpload(event.user)
    /\ Val(Upload(event.user)).start_date = Some(0)


\* ------------------------------------ one row for one draft (SaveSpec)
\* The step stored a row for user u.
Inserted(u) == next_doc_id' # next_doc_id /\ event'.user = u

\* C39: each draft is stored at most once: a step that stores a row from
\* the draft of a user ends that user's conversation and removes the draft,
\* and a token of the conversation that arrives when the conversation has
\* ended stores nothing.
C39_DraftStoredAtMostOnce ==
    [][\A u \in Users :
          /\ Inserted(u) => (conv'[u] = END /\ ~HasUpload(u)')
          /\ (StaleTokenStep(u) /\ conv[u] = END)
                => (next_doc_id' = next_doc_id /\ documents' = documents)]_vars

\* The part about the tokens that arrive after the conversation has ended.
C39_ResendAfterTerminalStoresNothing ==
    [][\A u \in Users :
          (StaleTokenStep(u) /\ conv[u] = END)
          => (next_doc_id' = next_doc_id /\ documents' = documents)]_vars

\* The final button was pressed after a save whose reply raised, and the
\* store holds two rows made from the one draft.
C39_OneDraftStoredTwice ==
    /\ event.handler \in {"upload_template_callback", "upload_end_date_callback"}
    /\ event.reply = "upload_success"
    /\ \E d1, d2 \in documents :
          /\ d1.id # d2.id
          /\ d1.user_id = event.user /\ d2.user_id = event.user
          /\ d1.file_id = d2.file_id
          /\ d1.name = d2.name
          /\ d1.start_date = d2.start_date

\* The final button pressed again after the save that ended the
\* conversation: no handler ran and the store holds the one row.
C39_ResentAfterTerminal ==
    /\ event.handler = "none"
    /\ event.was = END
    /\ event.update.data = <<"upload", "template", "skip">>
    /\ Cardinality({d \in documents : d.user_id = event.user}) = 1


\* ------------------------------------ the stored fields (SaveSpec)
\* C40: every document the upload conversation stores has a name of 2 to
\* 100 characters (a longer text is cut to 100, not refused), a file
\* reference and a start date, over any sequence of files, texts, tokens
\* and commands; the end date and the template may be null.
C40_StoredFieldsPresent ==
    \A d \in documents :
        /\ 2 <= Len(d.name) /\ Len(d.name) <= 100
        /\ d.file_id # ""
        /\ d.start_date # None

\* The name and the file reference alone: every stored row has a name of
\* 2 to 100 characters, the default name included, and a file reference.
C40_NamedRowsWithinLength ==
    \A d \in documents :
        /\ 2 <= Len(d.name) /\ Len(d.name) <= 100
        /\ d.file_id # ""

\* A document was stored under the first 100 characters of a name of 101.
C40_LongNameCut ==
    /\ event.reply = "upload_success"
    /\ \E d \in documents :
          /\ Some(d.id) = event.doc_id
          /\ d.name = SubSeq(LongText, 1, 100)
          /\ d.file_id = "pdf1"
          /\ d.start_date = Some(0)

\* A second file arrived while the template was awaited, the reply to it
\* raised, and the template button stored the new draft: a row with the
\* default name and no start date.
C40_StoredWithoutStartDate ==
    /\ event.handler = "upload_template_callback"
    /\ event.was = WAITING_TEMPLATE
    /\ event.reply = "upload_success"
    /\ \E d \in documents :
          /\ Some(d.id) = event.doc_id
          /\ d.name = DefaultName
          /\ d.start_date = None
====
